---- MODULE Spec2Model ----
(***************************************************************************)
(* libxivdat: the DAT container codec (src/src/dat_file.rs) and its type   *)
(* registry (src/src/dat_type.rs).                                         *)
(*                                                                         *)
(* The state is one DATFile (its four cached header fields and the cursor  *)
(* of its raw_file) together with the file on disk (its length and its     *)
(* bytes).  Every public operation of DATFile is one action.               *)
(*                                                                         *)
(* Numbers.  Sizes are u32 and offsets are u64/i64 in the source.  TLC's   *)
(* integers are 32 bits wide, so an offset q * 2^32 + r (q in 0..1, r      *)
(* small or slightly negative) is kept as q * U32_RANGE + r.  This keeps   *)
(* +, - and < exact on every offset the model reaches, and `x as u32` is   *)
(* x % U32_RANGE.  Sizes stored in headers are kept as themselves;         *)
(* U32_RANGE - 1 stands for u32::MAX.                                      *)
(***************************************************************************)
EXTENDS Integers, Sequences, FiniteSets, TLC

VARIABLES
    content_size,     \* DATFile.content_size
    file_type,        \* DATFile.file_type
    header_end_byte,  \* DATFile.header_end_byte
    max_size,         \* DATFile.max_size
    raw_pos,          \* cursor of DATFile.raw_file (a raw file offset)
    disk_len,         \* length of the file on disk
    disk_bytes,       \* the non-zero bytes of the file on disk, by offset
    status,           \* "none" | "closed" | "open" | "failed" | "panic"
    last,             \* the last call: operation, argument, result
    overflow_checks,  \* TRUE: debug build (overflow panics); FALSE: release (wraps)
    written           \* the logical offsets the caller has written since the file was created

vars == <<content_size, file_type, header_end_byte, max_size, raw_pos,
          disk_len, disk_bytes, status, last, overflow_checks, written>>

----------------------------------------------------------------------------
(* Bounds of the model *)

MaxSize == 3       \* largest max_size / content_size argument
MaxBuf == 2        \* longest read or write buffer
MaxWide == 1       \* wide seeks reach logical offsets 2^32 .. 2^32 + MaxWide
MaxContent == 2    \* longest section payload of the enumerated buffers
MaxRecords == 2    \* most records in a buffer given to as_section_vec
MaxMacros == 2     \* most groups of sections in a buffer given to as_macro_vec

U32_RANGE == 2 ^ 30    \* stands for 2^32 (see "Numbers" above)

----------------------------------------------------------------------------
(* Program constants: src/src/dat_file.rs lines 10-20 *)

HEADER_SIZE == 17
MAX_SIZE_OFFSET == 32
INDEX_FILE_TYPE == 0
INDEX_MAX_SIZE == 4
INDEX_CONTENT_SIZE == 8

----------------------------------------------------------------------------
(* Bytes *)

RECURSIVE XorBits(_, _, _)
XorBits(a, b, k) ==
    IF k = 0 THEN 0
    ELSE (((a % 2) + (b % 2)) % 2) + 2 * XorBits(a \div 2, b \div 2, k - 1)

\* `*byte ^= mask_val` on u8
Xor8(a, b) == XorBits(a, b, 8)

\* u32::to_le_bytes
ToLeBytes(n) ==
    << n % 256, (n \div 256) % 256, (n \div 65536) % 256, (n \div 16777216) % 256 >>

\* mutant: u32::from_be_bytes in its place
FromBeBytes(b) == b[4] + 256 * b[3] + 65536 * b[2] + 16777216 * b[1]

\* u32::from_le_bytes
FromLeBytes(b) == b[1] + 256 * b[2] + 65536 * b[3] + 16777216 * b[4]

Min(a, b) == IF a < b THEN a ELSE b
Max(a, b) == IF a > b THEN a ELSE b

----------------------------------------------------------------------------
(* Type registry: src/src/dat_type.rs *)

DATType == { "Gearset", "GoldSaucer", "Hotbar", "ItemFinder", "ItemOrder",
             "Keybind", "LogFilter", "Macro", "RecentTells", "UISave", "Unknown" }

\* `dat_type as i32`: the enum discriminants
TypeCode(t) ==
    CASE t = "Gearset"     -> 107 * 65536 + 5     \* 0x006b0005
      [] t = "GoldSaucer"  -> 103 * 65536 + 10    \* 0x0067000A
      [] t = "Hotbar"      -> 4 * 65536 + 2       \* 0x00040002
      [] t = "ItemFinder"  -> 202 * 65536 + 8     \* 0x00CA0008
      [] t = "ItemOrder"   -> 103 * 65536 + 7     \* 0x00670007
      [] t = "Keybind"     -> 101 * 65536 + 3     \* 0x00650003
      [] t = "LogFilter"   -> 3 * 65536 + 4       \* 0x00030004
      [] t = "Macro"       -> 2 * 65536 + 1       \* 0x00020001
      [] t = "RecentTells" -> 100 * 65536 + 6     \* 0x00640006
      [] t = "UISave"      -> 1 * 65536 + 9       \* 0x00010009
      [] OTHER             -> 0                   \* Unknown

\* impl From<u32> for DATType
DATTypeFrom(x) ==
    IF \E t \in DATType \ {"Unknown"} : TypeCode(t) = x
    THEN CHOOSE t \in DATType \ {"Unknown"} : TypeCode(t) = x
    ELSE "Unknown"

NoMask == -1    \* Option::None of get_mask_for_type

\* get_mask_for_type: Some(mask) as the mask, None as NoMask
get_mask_for_type(t) ==
    CASE t \in {"Gearset", "GoldSaucer", "ItemFinder", "ItemOrder", "Keybind",
                "Macro", "RecentTells"} -> 115    \* 0x73
      [] t \in {"Hotbar", "UISave"}     -> 49     \* 0x31
      [] t = "LogFilter"                -> 0
      [] OTHER                          -> NoMask

NoDefault == -1    \* Option::None of the get_default_.._for_type functions

\* get_default_end_byte_for_type
get_default_end_byte_for_type(t) ==
    CASE t \in {"Gearset", "GoldSaucer", "ItemFinder", "ItemOrder", "Keybind",
                "Macro", "RecentTells"} -> 255    \* 0xFF
      [] t = "Hotbar"                   -> 49     \* 0x31
      [] t = "LogFilter"                -> 0
      [] t = "UISave"                   -> 33     \* 0x21
      [] OTHER                          -> NoDefault

\* get_default_max_size_for_type
get_default_max_size_for_type(t) ==
    CASE t = "Gearset"     -> 44849
      [] t = "GoldSaucer"  -> 649
      [] t = "Hotbar"      -> 204800
      [] t = "ItemFinder"  -> 14030
      [] t = "ItemOrder"   -> 15193
      [] t = "Keybind"     -> 20480
      [] t = "LogFilter"   -> 2048
      [] t = "Macro"       -> 286720
      [] t = "RecentTells" -> 2048
      [] t = "UISave"      -> 64512
      [] OTHER             -> NoDefault

\* Option::unwrap_or(0)
unwrap_or_0(x) == IF x = NoDefault THEN 0 ELSE x

\* `for byte in .. { *byte ^= mask_val }` under `if let Some(mask_val)`
ApplyMask(t, bytes) ==
    IF get_mask_for_type(t) = NoMask THEN bytes
    ELSE [i \in 1..Len(bytes) |-> Xor8(bytes[i], get_mask_for_type(t))]

----------------------------------------------------------------------------
(* The file on disk: std::fs::File as the source uses it *)

ByteAt(bytes, off) == IF off \in DOMAIN bytes THEN bytes[off] ELSE 0

\* the bytes at off .. off + n - 1; bytes at or past the end of file read as 0
BytesAt(bytes, off, n) == [i \in 1..n |-> ByteAt(bytes, off + i - 1)]

\* File::write_all(data) with the cursor at off: the new bytes of the file
PutBytes(bytes, off, data) ==
    LET val(o) == IF o >= off /\ o < off + Len(data)
                  THEN data[o - off + 1] ELSE ByteAt(bytes, o)
        dom == { o \in DOMAIN bytes \cup (off .. off + Len(data) - 1) : val(o) # 0 }
    IN [o \in dom |-> val(o)]

\* File::write_all(data) with the cursor at off: the new length of the file
PutLen(len, off, data) == IF Len(data) = 0 THEN len ELSE Max(len, off + Len(data))

\* File::set_len(n): the new bytes of the file
CutBytes(bytes, n) == [o \in { p \in DOMAIN bytes : p < n } |-> bytes[o]]

NoBytes == [o \in {} |-> 0]

Fill(b, n) == [i \in 1..n |-> b]

----------------------------------------------------------------------------
(* A DATFile with its file on disk, as one value `s`; an operation maps it *)
(* to an outcome [s, res, val, buf]: the state it leaves, the Result's     *)
(* kind, the number it returns and (for read) the caller's buffer.         *)

Self == [ content_size |-> content_size, file_type |-> file_type,
          header_end_byte |-> header_end_byte, max_size |-> max_size,
          raw_pos |-> raw_pos, disk_len |-> disk_len, disk_bytes |-> disk_bytes ]

Outcome(s, res, val, buf) == [ s |-> s, res |-> res, val |-> val, buf |-> buf ]

\* a u32 / u64 operation whose true result x is out of 0 .. range - 1
Overflows(x) == x < 0 \/ x >= U32_RANGE

\* the same operation with overflow checks off: the result wraps
Wrap(x) == x % U32_RANGE

\* impl Seek for DATFile::seek.  origin: "Start" | "Current" | "End".
\* checks: whether the build panics on arithmetic overflow.
\* val is the returned position; a negative val v is the wrapped u64 2^64 + v.
seek(s, origin, offset, checks) ==
    LET target ==
            CASE origin = "Current" -> s.raw_pos + offset
              [] origin = "End" ->
                    s.disk_len + ( offset
                                   - (s.max_size - s.content_size)
                                   - (MAX_SIZE_OFFSET - HEADER_SIZE)
                                   - 1 )
              [] OTHER -> HEADER_SIZE + offset
        moved == [s EXCEPT !.raw_pos = target]
    IN  IF origin = "Current" /\ s.raw_pos + offset < HEADER_SIZE
        THEN Outcome(s, "io:InvalidInput", 0, <<>>)
        ELSE IF target < 0
        \* File::seek to a negative offset fails with EINVAL
        THEN Outcome(s, "io:InvalidInput", 0, <<>>)
        ELSE IF target - HEADER_SIZE < 0 /\ checks
        \* `cursor - HEADER_SIZE as u64` underflows
        THEN Outcome(moved, "panic", 0, <<>>)
        ELSE Outcome(moved, "Ok", target - HEADER_SIZE, <<>>)

\* Seek::stream_position, the trait's default: self.seek(SeekFrom::Current(0))
stream_position(s, checks) == seek(s, "Current", 0, checks)

\* File::read(&mut internal_buf): the number of bytes the file has at the cursor
RawReadCount(s, n) == Min(n, Max(0, s.disk_len - s.raw_pos))

\* mutant: the read extent takes in the terminating NUL
max_end_with_nul(size) == size

\* `let max_end = self.content_size - 1`, before any wrapping
max_end_of(size) == size - 1

\* impl Read for DATFile::read.  buf: the caller's buffer before the call.
read(s, buf, checks) ==
    LET sp == stream_position(s, checks)
        cur_pos == Wrap(sp.val)                       \* `as u32`
        max_end_true == max_end_of(s.content_size)
        max_end == Wrap(max_end_true)
        sum_true == cur_pos + Len(buf)
        sum == Wrap(sum_true)
        read_end == IF sum < max_end THEN sum ELSE max_end
        read_len_true == read_end - cur_pos
        read_len == Wrap(read_len_true)
        count == RawReadCount(s, read_len)
        internal_buf ==
            ApplyMask(s.file_type,
                      [i \in 1..read_len |->
                          IF i <= count THEN ByteAt(s.disk_bytes, s.raw_pos + i - 1)
                          ELSE 0])
        after == [s EXCEPT !.raw_pos = s.raw_pos + count]
    IN  IF sp.res # "Ok" THEN Outcome(s, sp.res, 0, buf)
        ELSE IF checks /\ ( Overflows(max_end_true) \/ Overflows(sum_true)
                            \/ Overflows(read_len_true) )
        THEN Outcome(s, "panic", 0, buf)
        ELSE IF read_len < 1 THEN Outcome(s, "Ok", 0, buf)
        \* `buf[..read_len]` is out of range: the slice index panics
        ELSE IF read_len > Len(buf) THEN Outcome(s, "panic", 0, buf)
        ELSE Outcome(after, "Ok", count,
                     [i \in 1..Len(buf) |->
                         IF i <= read_len THEN internal_buf[i] ELSE buf[i]])

\* DATFile::write_content_size_header: the header field on disk and the
\* cached field; the cursor is put back where it was
write_content_size_header(s, size) ==
    [s EXCEPT !.disk_bytes = PutBytes(s.disk_bytes, INDEX_CONTENT_SIZE, ToLeBytes(size)),
              !.disk_len = PutLen(s.disk_len, INDEX_CONTENT_SIZE, ToLeBytes(size)),
              !.content_size = size]

\* DATFile::write_max_size_header
write_max_size_header(s, size) ==
    [s EXCEPT !.disk_bytes = PutBytes(s.disk_bytes, INDEX_MAX_SIZE, ToLeBytes(size)),
              !.disk_len = PutLen(s.disk_len, INDEX_MAX_SIZE, ToLeBytes(size)),
              !.max_size = size]

\* File::write(data) at the cursor: bytes, length and cursor of the raw file
RawWrite(s, data) ==
    [s EXCEPT !.disk_bytes = PutBytes(s.disk_bytes, s.raw_pos, data),
              !.disk_len = PutLen(s.disk_len, s.raw_pos, data),
              !.raw_pos = s.raw_pos + Len(data)]

\* impl Write for DATFile::write
write(s, buf, checks) ==
    LET sp == stream_position(s, checks)
        content_cursor == Wrap(sp.val)                \* `as u32`
        buf_len == Len(buf)
        new_content_size == content_cursor + (buf_len + 1)
        sized == IF new_content_size > s.content_size
                 THEN write_content_size_header(s, new_content_size)
                 ELSE s
    IN  IF sp.res # "Ok" THEN Outcome(s, sp.res, 0, <<>>)
        \* checked_add returns None
        ELSE IF Overflows(new_content_size) THEN Outcome(s, "io:InvalidInput", 0, <<>>)
        ELSE IF new_content_size > s.content_size /\ new_content_size > s.max_size
        THEN Outcome(s, "io:InvalidInput", 0, <<>>)
        ELSE Outcome(RawWrite(sized, ApplyMask(s.file_type, buf)), "Ok", buf_len, <<>>)

\* mutant: a grow pads with literal NUL, as a shrink does
padding_byte_unmasked(t, grow) == 0

\* mutant: the cursor is left at the end of the padding
cursor_left(s, pre_cursor) == s

\* the padding byte of set_content_size: `get_mask_for_type(..).unwrap_or(0)`
\* for a grow, 0 for a shrink
padding_byte_of(t, grow) ==
    IF grow /\ get_mask_for_type(t) # NoMask THEN get_mask_for_type(t) ELSE 0

\* `self.raw_file.seek(SeekFrom::Start(pre_cursor))`
reset_cursor(s, pre_cursor) == [s EXCEPT !.raw_pos = pre_cursor]

\* DATFile::set_content_size
set_content_size(s, new_size, checks) ==
    LET pre_cursor == s.raw_pos
        grow == new_size > s.content_size
        sk == IF grow THEN seek(s, "End", 0, checks)
              ELSE seek(s, "Start", new_size, checks)
        padding_byte == padding_byte_of(s.file_type, grow)
        write_size == IF grow THEN new_size - s.content_size
                      ELSE s.content_size - new_size
        padded == RawWrite(sk.s, Fill(padding_byte, write_size))
        sized == write_content_size_header(padded, new_size)
    IN  IF new_size = s.content_size THEN Outcome(s, "Ok", 0, <<>>)
        ELSE IF new_size = 0 THEN Outcome(s, "InvalidInput", 0, <<>>)
        ELSE IF new_size > s.max_size THEN Outcome(s, "Overflow", 0, <<>>)
        ELSE IF sk.res = "panic" THEN Outcome(sk.s, "panic", 0, <<>>)
        \* `?` on the io::Error: From<io::Error> for DATError
        ELSE IF sk.res # "Ok" THEN Outcome(sk.s, "FileIO", 0, <<>>)
        ELSE Outcome(reset_cursor(sized, pre_cursor), "Ok", 0, <<>>)

\* mutant: set_max_size without its check for a zero size
set_max_size_no_zero_check(s, new_size, checks) ==
    LET len_true == new_size + MAX_SIZE_OFFSET
        len == Wrap(len_true)
        cut == [s EXCEPT !.disk_len = len, !.disk_bytes = CutBytes(s.disk_bytes, len)]
    IN  IF new_size = s.max_size THEN Outcome(s, "Ok", 0, <<>>)
        ELSE IF new_size < s.content_size THEN Outcome(s, "Overflow", 0, <<>>)
        ELSE IF checks /\ Overflows(len_true) THEN Outcome(s, "panic", 0, <<>>)
        ELSE Outcome(write_max_size_header(cut, new_size), "Ok", 0, <<>>)

\* DATFile::set_max_size
\* `new_size + MAX_SIZE_OFFSET` is a u32 addition
set_max_size(s, new_size, checks) ==
    LET len_true == new_size + MAX_SIZE_OFFSET
        len == Wrap(len_true)
        cut == [s EXCEPT !.disk_len = len, !.disk_bytes = CutBytes(s.disk_bytes, len)]
    IN  IF new_size = s.max_size THEN Outcome(s, "Ok", 0, <<>>)
        ELSE IF new_size = 0 THEN Outcome(s, "InvalidInput", 0, <<>>)
        ELSE IF new_size < s.content_size THEN Outcome(s, "Overflow", 0, <<>>)
        ELSE IF checks /\ Overflows(len_true) THEN Outcome(s, "panic", 0, <<>>)
        ELSE Outcome(write_max_size_header(cut, new_size), "Ok", 0, <<>>)

----------------------------------------------------------------------------
(* Opening and creating *)

\* get_header_contents(header): header is the 17 header bytes
get_header_contents(header) ==
    LET file_type_id == FromLeBytes(SubSeq(header, INDEX_FILE_TYPE + 1, INDEX_MAX_SIZE))
        hdr_max_size == FromLeBytes(SubSeq(header, INDEX_MAX_SIZE + 1, INDEX_CONTENT_SIZE))
        hdr_content_size ==
            FromLeBytes(SubSeq(header, INDEX_CONTENT_SIZE + 1, INDEX_CONTENT_SIZE + 4))
        end_byte == header[HEADER_SIZE]
        \* 0xff00ff00 & file_type_id: bits 8..15 and 24..31 of the id
        masked_id == ((file_type_id \div 256) % 256) * 256
                     + ((file_type_id \div 16777216) % 256) * 16777216
    IN  IF masked_id > 0
        THEN [ res |-> "BadHeader", file_type |-> "Unknown", max_size |-> 0,
               content_size |-> 0, end_byte |-> 0 ]
        ELSE IF hdr_content_size > hdr_max_size
        THEN [ res |-> "BadHeader", file_type |-> "Unknown", max_size |-> 0,
               content_size |-> 0, end_byte |-> 0 ]
        ELSE [ res |-> "Ok", file_type |-> DATTypeFrom(file_type_id),
               max_size |-> hdr_max_size, content_size |-> hdr_content_size,
               end_byte |-> end_byte ]

\* no DATFile: the file (len, bytes) on disk and nothing else
NoFile(len, bytes) ==
    [ content_size |-> 0, file_type |-> "Unknown", header_end_byte |-> 0,
      max_size |-> 0, raw_pos |-> 0, disk_len |-> len, disk_bytes |-> bytes ]

\* DATFile::open / DATFile::open_options on the file (len, bytes)
open(len, bytes) ==
    LET hc == get_header_contents(BytesAt(bytes, 0, HEADER_SIZE))
        closed == NoFile(len, bytes)
    IN  \* read_exact: UnexpectedEof, an io::Error
        IF len < HEADER_SIZE THEN Outcome(closed, "FileIO", 0, <<>>)
        ELSE IF hc.res # "Ok" THEN Outcome(closed, hc.res, 0, <<>>)
        ELSE Outcome([ content_size |-> hc.content_size, file_type |-> hc.file_type,
                       header_end_byte |-> hc.end_byte, max_size |-> hc.max_size,
                       raw_pos |-> HEADER_SIZE, disk_len |-> len, disk_bytes |-> bytes ],
                     "Ok", 0, <<>>)

\* DATFile::create_unsafe.  `max_size + MAX_SIZE_OFFSET` is a u32 addition;
\* the header writes extend a file that set_len left shorter than the header.
create_unsafe(dat_type, new_content_size, new_max_size, end_byte, checks) ==
    LET len_true == new_max_size + MAX_SIZE_OFFSET
        len == Wrap(len_true)
        b1 == PutBytes(NoBytes, INDEX_FILE_TYPE, ToLeBytes(TypeCode(dat_type)))
        b2 == PutBytes(b1, INDEX_MAX_SIZE, ToLeBytes(new_max_size))
        b3 == PutBytes(b2, INDEX_CONTENT_SIZE, ToLeBytes(1))
        b4 == PutBytes(b3, HEADER_SIZE - 1, <<end_byte>>)
        opened == open(Max(len, HEADER_SIZE), b4)
    IN  IF checks /\ Overflows(len_true) THEN Outcome(NoFile(0, NoBytes), "panic", 0, <<>>)
        ELSE IF opened.res # "Ok" THEN opened
        ELSE set_content_size(opened.s, new_content_size, checks)

\* `?` on an io::Result in a function that returns DATError:
\* From<io::Error> for DATError
io_result(out) ==
    IF out.res \in {"Ok", "panic"} THEN out ELSE Outcome(out.s, "FileIO", 0, out.buf)

\* Write::write_all over DATFile::write; File::write takes the whole buffer
write_all(s, buf, checks) ==
    IF Len(buf) = 0 THEN Outcome(s, "Ok", 0, <<>>) ELSE write(s, buf, checks)

\* Read::read_exact, after a second call of read returned `more`
read_exact_more(r, buf, more) ==
    IF more.res # "Ok" THEN more
    ELSE IF more.val = Len(buf) - r.val
    THEN Outcome(more.s, "Ok", 0, SubSeq(r.buf, 1, r.val) \o more.buf)
    ELSE Outcome(more.s, "io:UnexpectedEof", 0, SubSeq(r.buf, 1, r.val) \o more.buf)

\* Read::read_exact, after the first call of read returned r
read_exact_next(r, buf, checks) ==
    IF r.res # "Ok" THEN r
    ELSE IF r.val = Len(buf) THEN Outcome(r.s, "Ok", 0, r.buf)
    ELSE IF r.val = 0 THEN Outcome(r.s, "io:UnexpectedEof", 0, r.buf)
    ELSE read_exact_more(r, buf, read(r.s, SubSeq(r.buf, r.val + 1, Len(buf)), checks))

\* Read::read_exact over DATFile::read: `while !buf.is_empty()`, an Ok(0)
\* ends the loop with UnexpectedEof.  A DATFile::read that returns less than
\* the buffer has stopped at the content end or at the end of the file, where
\* the next read returns Ok(0): the loop makes at most two calls that read.
read_exact(s, buf, checks) ==
    IF Len(buf) = 0 THEN Outcome(s, "Ok", 0, buf)
    ELSE read_exact_next(read(s, buf, checks), buf, checks)

\* DATFile::create_with_content, after write_all returned wa
create_with_content_written(wa, checks) ==
    IF wa.res # "Ok" THEN wa
    ELSE io_result(seek(wa.s, "Start", 0, checks))

\* DATFile::create_with_content, after create_unsafe returned cr
create_with_content_created(cr, content, checks) ==
    IF cr.res # "Ok" THEN cr
    ELSE create_with_content_written(io_result(write_all(cr.s, content, checks)), checks)

\* DATFile::create_with_content
create_with_content(dat_type, content, checks) ==
    create_with_content_created(
        create_unsafe(dat_type, 1,
                      unwrap_or_0(get_default_max_size_for_type(dat_type)),
                      unwrap_or_0(get_default_end_byte_for_type(dat_type)), checks),
        content, checks)

\* read_content, after DATFile::open returned `opened`
read_content_opened(opened, checks) ==
    IF opened.res # "Ok" THEN opened
    \* `dat_file.content_size - 1` is a u32 subtraction
    ELSE IF checks /\ Overflows(opened.s.content_size - 1)
    THEN Outcome(opened.s, "panic", 0, <<>>)
    ELSE io_result(read_exact(opened.s, Fill(0, Wrap(opened.s.content_size - 1)), checks))

\* read_content on the file (len, bytes); buf is the Vec<u8> returned
read_content(len, bytes, checks) == read_content_opened(open(len, bytes), checks)

\* write_content, after the resize returned `resized`
write_content_resized(resized, buf, checks) ==
    IF resized.res # "Ok" THEN resized
    ELSE io_result(write(resized.s, buf, checks))

\* mutant: write_content that resizes only to grow
write_content_grow_only(opened, buf, checks) ==
    IF opened.res # "Ok" THEN opened
    ELSE IF Overflows(Len(buf) + 1) THEN Outcome(opened.s, "Overflow", 0, <<>>)
    ELSE write_content_resized(
             IF Len(buf) + 1 > opened.s.content_size
             THEN set_content_size(opened.s, Len(buf) + 1, checks)
             ELSE Outcome(opened.s, "Ok", 0, <<>>),
             buf, checks)

\* write_content, after DATFile::open_options returned `opened`
write_content_opened(opened, buf, checks) ==
    IF opened.res # "Ok" THEN opened
    \* u32::try_from(buf.len() + 1) fails
    ELSE IF Overflows(Len(buf) + 1) THEN Outcome(opened.s, "Overflow", 0, <<>>)
    ELSE write_content_resized(
             IF Len(buf) + 1 # opened.s.content_size
             THEN set_content_size(opened.s, Len(buf) + 1, checks)
             ELSE Outcome(opened.s, "Ok", 0, <<>>),
             buf, checks)

\* write_content on the file (len, bytes)
write_content(len, bytes, buf, checks) ==
    write_content_opened(open(len, bytes), buf, checks)

----------------------------------------------------------------------------
(* Sections: src/src/section.rs.  A String or &str is the sequence of its   *)
(* UTF-8 bytes; a Section or SectionData is [tag, content_size, content].  *)

SECTION_HEADER_SIZE == 3
U16_MAX == 65535

\* the result of a section function: its kind, the value of an Ok (a section
\* or a Vec of them) and, for as_section_vec, the cursor it stopped at
SecResult(res, out, cursor) == [ res |-> res, out |-> out, cursor |-> cursor ]

NoSection == [ tag |-> <<>>, content_size |-> 0, content |-> <<>> ]

\* a UTF-8 continuation byte
IsCont(b) == b >= 128 /\ b <= 191

\* the length of the well-formed UTF-8 sequence that starts at b[i], 0 if none
Utf8SeqLen(b, i) ==
    LET n == Len(b)
        b0 == b[i]
        b1 == IF i + 1 <= n THEN b[i + 1] ELSE 0
        b2 == IF i + 2 <= n THEN b[i + 2] ELSE 0
        b3 == IF i + 3 <= n THEN b[i + 3] ELSE 0
    IN  IF b0 < 128 THEN 1
        ELSE IF b0 >= 194 /\ b0 <= 223
        THEN ( IF IsCont(b1) THEN 2 ELSE 0 )
        ELSE IF b0 >= 224 /\ b0 <= 239
        THEN ( IF /\ IsCont(b1) /\ IsCont(b2)
                  /\ ( b0 = 224 => b1 >= 160 )
                  /\ ( b0 = 237 => b1 <= 159 )
               THEN 3 ELSE 0 )
        ELSE IF b0 >= 240 /\ b0 <= 244
        THEN ( IF /\ IsCont(b1) /\ IsCont(b2) /\ IsCont(b3)
                  /\ ( b0 = 240 => b1 >= 144 )
                  /\ ( b0 = 244 => b1 <= 143 )
               THEN 4 ELSE 0 )
        ELSE 0

\* std::str::from_utf8 / String::from_utf8 succeed on b: every byte that
\* is not a continuation byte starts a well-formed sequence, and every
\* continuation byte lies inside the sequence started before it
from_utf8(b) ==
    \A i \in 1 .. Len(b) :
        IF IsCont(b[i])
        THEN \E k \in 1 .. 3 : /\ i - k >= 1
                               /\ ~IsCont(b[i - k])
                               /\ Utf8SeqLen(b, i - k) > k
        ELSE Utf8SeqLen(b, i) > 0

\* u16::to_le_bytes
U16ToLeBytes(n) == << n % 256, n \div 256 >>

\* u16::from_le_bytes
U16FromLeBytes(b) == b[1] + 256 * b[2]

\* Section::new that lets a content of u16::MAX bytes through
Section_new_accepts_max(tag, content) ==
    IF Len(tag) # 1 THEN SecResult("InvalidInput", NoSection, 0)
    ELSE IF Len(content) > U16_MAX THEN SecResult("Overflow", NoSection, 0)
    ELSE SecResult("Ok", [ tag |-> tag, content_size |-> Len(content) + 1,
                           content |-> content ], 0)

\* Section::new(tag, content)
Section_new(tag, content) ==
    IF Len(tag) # 1 THEN SecResult("InvalidInput", NoSection, 0)
    \* u16::try_from(content.len() + 1) fails
    ELSE IF Len(content) + 1 > U16_MAX THEN SecResult("Overflow", NoSection, 0)
    ELSE SecResult("Ok", [ tag |-> tag, content_size |-> Len(content) + 1,
                           content |-> content ], 0)

\* SectionData::new(tag, content)
SectionData_new(tag, content) ==
    IF Len(tag) # 1 THEN SecResult("InvalidInput", NoSection, 0)
    ELSE IF Len(content) + 1 > U16_MAX THEN SecResult("Overflow", NoSection, 0)
    ELSE SecResult("Ok", [ tag |-> tag, content_size |-> Len(content) + 1,
                           content |-> content ], 0)

\* impl From<Section> for Vec<u8>
Section_into_bytes(x) ==
    x.tag \o U16ToLeBytes(x.content_size) \o x.content \o <<0>>

\* impl From<SectionData> for Vec<u8>
SectionData_into_bytes(x) ==
    x.tag \o U16ToLeBytes(x.content_size) \o x.content \o <<0>>

\* get_section_header_contents(bytes): bytes is the 3 header bytes
get_section_header_contents(bytes) ==
    IF ~from_utf8(SubSeq(bytes, 1, 1)) THEN SecResult("BadEncoding", NoSection, 0)
    ELSE SecResult("Ok", [ tag |-> SubSeq(bytes, 1, 1),
                           content_size |-> U16FromLeBytes(SubSeq(bytes, 2, 3)),
                           content |-> <<>> ], 0)

\* the match on content_size.cmp(&remaining_buf_size) of both try_from
\* functions, with the header they read
try_from_body(x, header) ==
    IF header.res # "Ok" THEN header
    ELSE IF header.out.content_size > Len(x) - 3     \* Ordering::Greater
    THEN SecResult("Overflow", NoSection, 0)
    ELSE IF header.out.content_size < Len(x) - 3     \* Ordering::Less
    THEN SecResult("Underflow", NoSection, 0)
    \* `x[3..x.len() - 1]` with x.len() = 3: the slice index panics
    ELSE IF Len(x) - 1 < 3 THEN SecResult("panic", NoSection, 0)
    ELSE IF ~from_utf8(SubSeq(x, 4, Len(x) - 1))
    THEN SecResult("BadEncoding", NoSection, 0)
    ELSE SecResult("Ok", [ tag |-> header.out.tag,
                           content_size |-> header.out.content_size,
                           content |-> SubSeq(x, 4, Len(x) - 1) ], 0)

\* impl TryFrom<&[u8]> for Section
Section_try_from(x) ==
    \* `x[0..SECTION_HEADER_SIZE]` is out of range: the slice index panics
    IF Len(x) < SECTION_HEADER_SIZE THEN SecResult("panic", NoSection, 0)
    ELSE try_from_body(x, get_section_header_contents(SubSeq(x, 1, SECTION_HEADER_SIZE)))

\* impl TryFrom<&[u8]> for SectionData
SectionData_try_from(x) ==
    IF Len(x) < 1 THEN SecResult("panic", NoSection, 0)
    ELSE IF ~from_utf8(SubSeq(x, 1, 1)) THEN SecResult("BadEncoding", NoSection, 0)
    ELSE IF Len(x) < SECTION_HEADER_SIZE THEN SecResult("panic", NoSection, 0)
    ELSE try_from_body(x, SecResult("Ok", [ tag |-> SubSeq(x, 1, 1),
                                            content_size |-> U16FromLeBytes(SubSeq(x, 2, 3)),
                                            content |-> <<>> ], 0))

\* as_section
as_section(bytes) == SectionData_try_from(bytes)

RECURSIVE as_section_vec_from(_, _, _)

\* the loop body without the test of the byte at the declared end
as_section_vec_turn_no_end_check(bytes, cursor, res_vec, header) ==
    IF header.res # "Ok" THEN SecResult(header.res, <<>>, cursor)
    ELSE IF header.out.content_size = 0 THEN SecResult("panic", <<>>, cursor)
    ELSE IF cursor + 3 + header.out.content_size - 1 > Len(bytes)
    THEN SecResult("panic", <<>>, cursor + 3)
    ELSE IF \E i \in cursor + 4 .. cursor + 3 + header.out.content_size - 1 : bytes[i] = 0
    THEN SecResult("Underflow", <<>>, cursor + 3 + header.out.content_size)
    ELSE IF cursor + 3 + header.out.content_size > Len(bytes)
    THEN SecResult("panic", <<>>, cursor + 3 + header.out.content_size)
    ELSE IF ~from_utf8(SubSeq(bytes, cursor + 4, cursor + 3 + header.out.content_size - 1))
    THEN SecResult("BadEncoding", <<>>, cursor + 3 + header.out.content_size)
    ELSE SecResult("Ok",
                   Append(res_vec,
                          [ tag |-> header.out.tag, content_size |-> header.out.content_size,
                            content |-> SubSeq(bytes, cursor + 4,
                                               cursor + 3 + header.out.content_size - 1) ]),
                   cursor + 3 + header.out.content_size)

\* as_section_vec: one turn of `while cursor < buf_len`, with the header read
\* at the cursor; an Ok is the loop state after the turn
as_section_vec_turn(bytes, cursor, res_vec, header) ==
    IF header.res # "Ok" THEN SecResult(header.res, <<>>, cursor)
    \* `&bytes[cursor..cursor + 0 - 1]`: the slice ends before it starts
    ELSE IF header.out.content_size = 0 THEN SecResult("panic", <<>>, cursor)
    \* `&bytes[cursor..cursor + content_size - 1]` is out of range
    ELSE IF cursor + 3 + header.out.content_size - 1 > Len(bytes)
    THEN SecResult("panic", <<>>, cursor + 3)
    ELSE IF \E i \in cursor + 4 .. cursor + 3 + header.out.content_size - 1 : bytes[i] = 0
    THEN SecResult("Underflow", <<>>, cursor + 3 + header.out.content_size)
    \* `bytes[cursor - 1]` is out of range
    ELSE IF cursor + 3 + header.out.content_size > Len(bytes)
    THEN SecResult("panic", <<>>, cursor + 3 + header.out.content_size)
    ELSE IF bytes[cursor + 3 + header.out.content_size] # 0
    THEN SecResult("Overflow", <<>>, cursor + 3 + header.out.content_size)
    ELSE IF ~from_utf8(SubSeq(bytes, cursor + 4, cursor + 3 + header.out.content_size - 1))
    THEN SecResult("BadEncoding", <<>>, cursor + 3 + header.out.content_size)
    ELSE SecResult("Ok",
                   Append(res_vec,
                          [ tag |-> header.out.tag, content_size |-> header.out.content_size,
                            content |-> SubSeq(bytes, cursor + 4,
                                               cursor + 3 + header.out.content_size - 1) ]),
                   cursor + 3 + header.out.content_size)

\* as_section_vec: the first turn of the loop from the loop state st (the
\* sections pushed so far and the cursor)
as_section_vec_first(bytes, st) ==
    \* `&bytes[cursor..cursor + SECTION_HEADER_SIZE]` is out of range
    IF st.cursor + SECTION_HEADER_SIZE > Len(bytes) THEN SecResult("panic", <<>>, st.cursor)
    ELSE as_section_vec_turn(
             bytes, st.cursor, st.out,
             get_section_header_contents(
                 SubSeq(bytes, st.cursor + 1, st.cursor + SECTION_HEADER_SIZE)))

\* as_section_vec: at most `turns` turns of `while cursor < buf_len` from the
\* loop state st; a return leaves the loop.  The turns are run as two halves,
\* one after the other.
as_section_vec_from(bytes, st, turns) ==
    IF st.res # "Ok" \/ ~(st.cursor < Len(bytes)) THEN st
    ELSE IF turns = 1 THEN as_section_vec_first(bytes, st)
    ELSE as_section_vec_from(bytes, as_section_vec_from(bytes, st, turns \div 2),
                             turns - turns \div 2)

\* as_section_vec: every turn moves the cursor, so Len(bytes) turns end the loop
as_section_vec(bytes) == as_section_vec_from(bytes, SecResult("Ok", <<>>, 0), Len(bytes) + 1)

\* SECTION_BASED_TYPES; ACQ is RecentTells, MACRO and MACROSYS are Macro
SECTION_BASED_TYPES == {"RecentTells", "Keybind", "Macro", "Unknown"}

\* the outcome of a function that reads a section (or more) from a DATFile:
\* the state o.s it leaves, the Result's kind and the value of an Ok
Decoded(o, res, out) == [ s |-> o.s, res |-> res, val |-> 0, buf |-> <<>>, out |-> out ]

\* `match dat_file.read_exact(..)` of read_section_unsafe: UnexpectedEof is
\* wrapped as EndOfFile, any other io::Error as FileIO
eof_result(out) ==
    IF out.res = "io:UnexpectedEof" THEN Outcome(out.s, "EndOfFile", 0, out.buf)
    ELSE io_result(out)

\* read_section_unsafe, after the seek over the null byte returned sk
read_section_skipped(sk, header, content) ==
    IF sk.res # "Ok" THEN Decoded(sk, sk.res, NoSection)
    ELSE IF ~from_utf8(content) THEN Decoded(sk, "BadEncoding", NoSection)
    ELSE Decoded(sk, "Ok", [ tag |-> header.out.tag,
                             content_size |-> header.out.content_size,
                             content |-> content ])

\* read_section_unsafe, after the content was read with outcome c
read_section_content_read(c, header, checks) ==
    IF c.res # "Ok" THEN Decoded(c, c.res, NoSection)
    ELSE read_section_skipped(io_result(seek(c.s, "Current", 1, checks)), header, c.buf)

\* read_section_unsafe, after the header was read (h) and split (header)
read_section_header_split(h, header, checks) ==
    IF header.res # "Ok" THEN Decoded(h, header.res, NoSection)
    \* `content_size - 1` is a u16 subtraction
    ELSE IF checks /\ header.out.content_size = 0 THEN Decoded(h, "panic", NoSection)
    ELSE read_section_content_read(
             eof_result(read_exact(h.s, Fill(0, (header.out.content_size - 1) % (U16_MAX + 1)),
                                   checks)),
             header, checks)

\* read_section_unsafe, after the header was read with outcome h
read_section_header_read(h, checks) ==
    IF h.res # "Ok" THEN Decoded(h, h.res, NoSection)
    ELSE read_section_header_split(h, get_section_header_contents(h.buf), checks)

\* read_section_unsafe
read_section_unsafe(s, checks) ==
    read_section_header_read(
        eof_result(read_exact(s, Fill(0, SECTION_HEADER_SIZE), checks)), checks)

\* read_section
read_section(s, checks) ==
    IF s.file_type \in SECTION_BASED_TYPES THEN read_section_unsafe(s, checks)
    ELSE Decoded([s |-> s], "IncorrectType", NoSection)

\* the concatenation of a sequence of byte vectors (Vec::append in a loop)
RECURSIVE Concat(_)
Concat(seqs) ==
    IF Len(seqs) = 0 THEN <<>>
    ELSE IF Len(seqs) = 1 THEN seqs[1]
    ELSE Concat(SubSeq(seqs, 1, Len(seqs) \div 2))
         \o Concat(SubSeq(seqs, Len(seqs) \div 2 + 1, Len(seqs)))

----------------------------------------------------------------------------
(* Macros: src/src/high_level_modules/macro.rs and its icon table           *)
(* (src/src/high_level/macro/icon.rs).  A String is the sequence of its    *)
(* UTF-8 bytes, so `len()` is Len; a Macro and a MacroData are records of  *)
(* the same shape.                                                         *)

EXPECTED_ITEM_COUNT == 100
SECTION_TAG_TITLE == <<84>>    \* "T"
SECTION_TAG_ICON == <<73>>     \* "I"
SECTION_TAG_KEY == <<75>>      \* "K"
SECTION_TAG_LINE == <<76>>     \* "L"

\* the arms of macro_icon_from_key_and_id: <<key, id, icon>>
FromKeyAndIdArms ==
    {
      <<<<48,48,48>>, <<48,48,48,48,48,48,48>>, "NoIcon">>,
      <<<<48,48,49>>, <<48,48,49,48,49,68,49>>, "DefaultIcon">>,
      <<<<48,48,50>>, <<48,48,49,48,50,51,53>>, "DPS1">>,
      <<<<48,48,51>>, <<48,48,49,48,50,51,54>>, "DPS1">>,
      <<<<48,48,52>>, <<48,48,49,48,50,51,55>>, "DPS1">>,
      <<<<48,48,53>>, <<48,48,49,48,50,52,57>>, "Tank1">>,
      <<<<48,48,54>>, <<48,48,49,48,50,52,65>>, "Tank2">>,
      <<<<48,48,55>>, <<48,48,49,48,50,52,66>>, "Tank3">>,
      <<<<48,48,56>>, <<48,48,49,48,50,53,68>>, "Healer1">>,
      <<<<48,48,57>>, <<48,48,49,48,50,53,69>>, "Healer2">>,
      <<<<48,48,65>>, <<48,48,49,48,50,53,70>>, "Healer3">>,
      <<<<48,48,66>>, <<48,48,49,48,49,69,53>>, "CrafterPurple1">>,
      <<<<48,48,67>>, <<48,48,49,48,49,69,54>>, "CrafterPurple2">>,
      <<<<48,48,68>>, <<48,48,49,48,49,69,55>>, "CrafterPurple3">>,
      <<<<48,48,69>>, <<48,48,49,48,49,70,57>>, "CrafterYellow1">>,
      <<<<48,48,70>>, <<48,48,49,48,49,70,65>>, "CrafterYellow2">>,
      <<<<48,49,48>>, <<48,48,49,48,49,70,66>>, "CrafterYellow3">>,
      <<<<48,49,49>>, <<48,48,49,48,50,48,68>>, "CrafterGreen1">>,
      <<<<48,49,50>>, <<48,48,49,48,50,48,69>>, "CrafterGreen2">>,
      <<<<48,49,51>>, <<48,48,49,48,50,48,70>>, "CrafterGreen3">>,
      <<<<48,49,52>>, <<48,48,48,48,53,69,57>>, "ItemHammer">>,
      <<<<48,49,53>>, <<48,48,48,48,54,49,66>>, "ItemSword">>,
      <<<<48,49,54>>, <<48,48,48,48,54,52,68>>, "ItemShield">>,
      <<<<48,49,55>>, <<48,48,48,48,54,55,69>>, "ItemRing">>,
      <<<<48,49,56>>, <<48,48,48,48,54,66,49>>, "ItemShoes">>,
      <<<<48,49,57>>, <<48,48,48,48,54,69,50>>, "ItemHat">>,
      <<<<48,49,65>>, <<48,48,48,48,55,49,53>>, "ItemBottle">>,
      <<<<48,49,66>>, <<48,48,48,48,55,52,54>>, "ItemBread">>,
      <<<<48,49,67>>, <<48,48,49,48,50,50,49>>, "Gatherer1">>,
      <<<<48,49,68>>, <<48,48,49,48,50,50,50>>, "Gatherer2">>,
      <<<<48,49,69>>, <<48,48,49,48,50,50,51>>, "Gatherer3">>,
      <<<<48,49,70>>, <<48,48,49,48,50,55,49>>, "Number0">>,
      <<<<48,50,48>>, <<48,48,49,48,50,55,50>>, "Number1">>,
      <<<<48,50,49>>, <<48,48,49,48,50,55,51>>, "Number2">>,
      <<<<48,50,50>>, <<48,48,49,48,50,55,52>>, "Number3">>,
      <<<<48,50,51>>, <<48,48,49,48,50,55,53>>, "Number4">>,
      <<<<48,50,52>>, <<48,48,49,48,50,55,54>>, "Number5">>,
      <<<<48,50,53>>, <<48,48,49,48,50,55,55>>, "Number6">>,
      <<<<48,50,54>>, <<48,48,49,48,50,55,56>>, "Number7">>,
      <<<<48,50,55>>, <<48,48,49,48,50,55,57>>, "Number8">>,
      <<<<48,50,56>>, <<48,48,49,48,50,55,65>>, "Number9">>,
      <<<<48,50,57>>, <<48,48,49,48,50,55,66>>, "Number10">>,
      <<<<48,50,65>>, <<48,48,49,48,50,56,53>>, "InverseNumber0">>,
      <<<<48,50,66>>, <<48,48,49,48,50,56,54>>, "InverseNumber1">>,
      <<<<48,50,67>>, <<48,48,49,48,50,56,55>>, "InverseNumber2">>,
      <<<<48,50,68>>, <<48,48,49,48,50,56,56>>, "InverseNumber3">>,
      <<<<48,50,69>>, <<48,48,49,48,50,56,57>>, "InverseNumber4">>,
      <<<<48,50,70>>, <<48,48,49,48,50,56,65>>, "InverseNumber5">>,
      <<<<48,51,48>>, <<48,48,49,48,50,56,66>>, "InverseNumber6">>,
      <<<<48,51,49>>, <<48,48,49,48,50,56,67>>, "InverseNumber7">>,
      <<<<48,51,50>>, <<48,48,49,48,50,56,68>>, "InverseNumber8">>,
      <<<<48,51,51>>, <<48,48,49,48,50,56,69>>, "InverseNumber9">>,
      <<<<48,51,52>>, <<48,48,49,48,50,56,70>>, "InverseNumber10">>,
      <<<<48,51,53>>, <<48,48,49,48,50,70,68>>, "SymbolArrowLeft">>,
      <<<<48,51,54>>, <<48,48,49,48,50,70,69>>, "SymbolArrowRight">>,
      <<<<48,51,55>>, <<48,48,49,48,50,70,70>>, "SymbolArrowUp">>,
      <<<<48,51,56>>, <<48,48,49,48,51,48,48>>, "SymbolArrowDown">>,
      <<<<48,51,57>>, <<48,48,49,48,51,48,49>>, "SymbolCircle">>,
      <<<<48,51,65>>, <<48,48,49,48,51,48,50>>, "SymbolTriangle">>,
      <<<<48,51,66>>, <<48,48,49,48,51,48,51>>, "SymbolSquare">>,
      <<<<48,51,67>>, <<48,48,49,48,51,48,52>>, "SymbolX">>,
      <<<<48,51,68>>, <<48,48,49,48,51,48,53>>, "SymbolNo">>,
      <<<<48,51,69>>, <<48,48,49,48,51,48,54>>, "SymbolWarning">>,
      <<<<48,51,70>>, <<48,48,49,48,51,48,55>>, "SymbolCheck">>,
      <<<<48,52,48>>, <<48,48,49,48,51,48,56>>, "SymbolStar">>,
      <<<<48,52,49>>, <<48,48,49,48,51,48,57>>, "SymbolQuestion">>,
      <<<<48,52,50>>, <<48,48,49,48,51,48,65>>, "SymbolExclamation">>,
      <<<<48,52,51>>, <<48,48,49,48,51,48,66>>, "SymbolPlus">>,
      <<<<48,52,52>>, <<48,48,49,48,51,48,67>>, "SymbolMinus">>,
      <<<<48,52,53>>, <<48,48,49,48,51,48,68>>, "SymbolClock">>,
      <<<<48,52,54>>, <<48,48,49,48,51,48,69>>, "SymbolBulb">>,
      <<<<48,52,55>>, <<48,48,49,48,51,48,70>>, "SymbolCog">>,
      <<<<48,52,56>>, <<48,48,49,48,51,49,48>>, "SymbolSearch">>,
      <<<<48,52,57>>, <<48,48,49,48,51,49,49>>, "SymbolSpeech">>,
      <<<<48,52,65>>, <<48,48,49,48,51,49,50>>, "SymbolHeart">>,
      <<<<48,52,66>>, <<48,48,49,48,51,49,51>>, "SymbolSpade">>,
      <<<<48,52,67>>, <<48,48,49,48,51,49,52>>, "SymbolClub">>,
      <<<<48,52,68>>, <<48,48,49,48,51,49,53>>, "SymbolDiamond">>,
      <<<<48,52,69>>, <<48,48,49,48,51,49,54>>, "SymbolDice">>,
      <<<<48,52,70>>, <<48,48,48,52,69,50,55>>, "CrystalFire">>,
      <<<<48,53,48>>, <<48,48,48,52,69,50,57>>, "CrystalIce">>,
      <<<<48,53,49>>, <<48,48,48,52,69,50,65>>, "CrystalWind">>,
      <<<<48,53,50>>, <<48,48,48,52,69,50,67>>, "CrystalEarth">>,
      <<<<48,53,51>>, <<48,48,48,52,69,50,66>>, "CrystalLightning">>,
      <<<<48,53,52>>, <<48,48,48,52,69,50,56>>, "CrystalWater">> }

\* macro_icon_from_key_and_id(key, id): the icon, or "None"
macro_icon_from_key_and_id(key, id) ==
    IF \E a \in FromKeyAndIdArms : a[1] = key /\ a[2] = id
    THEN (CHOOSE a \in FromKeyAndIdArms : a[1] = key /\ a[2] = id)[3]
    ELSE "None"

\* the arms of macro_icon_to_key_and_id: <<icon, key, id>>
ToKeyAndIdArms ==
    {
      <<"NoIcon", <<48,48,48>>, <<48,48,48,48,48,48,48>>>>,
      <<"DefaultIcon", <<48,48,49>>, <<48,48,49,48,49,68,49>>>>,
      <<"DPS1", <<48,48,50>>, <<48,48,49,48,50,51,53>>>>,
      <<"DPS2", <<48,48,51>>, <<48,48,49,48,50,51,54>>>>,
      <<"DPS3", <<48,48,52>>, <<48,48,49,48,50,51,55>>>>,
      <<"Tank1", <<48,48,53>>, <<48,48,49,48,50,52,57>>>>,
      <<"Tank2", <<48,48,54>>, <<48,48,49,48,50,52,65>>>>,
      <<"Tank3", <<48,48,55>>, <<48,48,49,48,50,52,66>>>>,
      <<"Healer1", <<48,48,56>>, <<48,48,49,48,50,53,68>>>>,
      <<"Healer2", <<48,48,57>>, <<48,48,49,48,50,53,69>>>>,
      <<"Healer3", <<48,48,65>>, <<48,48,49,48,50,53,70>>>>,
      <<"CrafterPurple1", <<48,48,66>>, <<48,48,49,48,49,69,53>>>>,
      <<"CrafterPurple2", <<48,48,67>>, <<48,48,49,48,49,69,54>>>>,
      <<"CrafterPurple3", <<48,48,68>>, <<48,48,49,48,49,69,55>>>>,
      <<"CrafterYellow1", <<48,48,69>>, <<48,48,49,48,49,70,57>>>>,
      <<"CrafterYellow2", <<48,48,70>>, <<48,48,49,48,49,70,65>>>>,
      <<"CrafterYellow3", <<48,49,48>>, <<48,48,49,48,49,70,66>>>>,
      <<"CrafterGreen1", <<48,49,49>>, <<48,48,49,48,50,48,68>>>>,
      <<"CrafterGreen2", <<48,49,50>>, <<48,48,49,48,50,48,69>>>>,
      <<"CrafterGreen3", <<48,49,51>>, <<48,48,49,48,50,48,70>>>>,
      <<"ItemHammer", <<48,49,52>>, <<48,48,48,48,53,69,57>>>>,
      <<"ItemSword", <<48,49,53>>, <<48,48,48,48,54,49,66>>>>,
      <<"ItemShield", <<48,49,54>>, <<48,48,48,48,54,52,68>>>>,
      <<"ItemRing", <<48,49,55>>, <<48,48,48,48,54,55,69>>>>,
      <<"ItemShoes", <<48,49,56>>, <<48,48,48,48,54,66,49>>>>,
      <<"ItemHat", <<48,49,57>>, <<48,48,48,48,54,69,50>>>>,
      <<"ItemBottle", <<48,49,65>>, <<48,48,48,48,55,49,53>>>>,
      <<"ItemBread", <<48,49,66>>, <<48,48,48,48,55,52,54>>>>,
      <<"Gatherer1", <<48,49,67>>, <<48,48,49,48,50,50,49>>>>,
      <<"Gatherer2", <<48,49,68>>, <<48,48,49,48,50,50,50>>>>,
      <<"Gatherer3", <<48,49,69>>, <<48,48,49,48,50,50,51>>>>,
      <<"Number0", <<48,49,70>>, <<48,48,49,48,50,55,49>>>>,
      <<"Number1", <<48,50,48>>, <<48,48,49,48,50,55,50>>>>,
      <<"Number2", <<48,50,49>>, <<48,48,49,48,50,55,51>>>>,
      <<"Number3", <<48,50,50>>, <<48,48,49,48,50,55,52>>>>,
      <<"Number4", <<48,50,51>>, <<48,48,49,48,50,55,53>>>>,
      <<"Number5", <<48,50,52>>, <<48,48,49,48,50,55,54>>>>,
      <<"Number6", <<48,50,53>>, <<48,48,49,48,50,55,55>>>>,
      <<"Number7", <<48,50,54>>, <<48,48,49,48,50,55,56>>>>,
      <<"Number8", <<48,50,55>>, <<48,48,49,48,50,55,57>>>>,
      <<"Number9", <<48,50,56>>, <<48,48,49,48,50,55,65>>>>,
      <<"Number10", <<48,50,57>>, <<48,48,49,48,50,55,66>>>>,
      <<"InverseNumber0", <<48,50,65>>, <<48,48,49,48,50,56,53>>>>,
      <<"InverseNumber1", <<48,50,66>>, <<48,48,49,48,50,56,54>>>>,
      <<"InverseNumber2", <<48,50,67>>, <<48,48,49,48,50,56,55>>>>,
      <<"InverseNumber3", <<48,50,68>>, <<48,48,49,48,50,56,56>>>>,
      <<"InverseNumber4", <<48,50,69>>, <<48,48,49,48,50,56,57>>>>,
      <<"InverseNumber5", <<48,50,70>>, <<48,48,49,48,50,56,65>>>>,
      <<"InverseNumber6", <<48,51,48>>, <<48,48,49,48,50,56,66>>>>,
      <<"InverseNumber7", <<48,51,49>>, <<48,48,49,48,50,56,67>>>>,
      <<"InverseNumber8", <<48,51,50>>, <<48,48,49,48,50,56,68>>>>,
      <<"InverseNumber9", <<48,51,51>>, <<48,48,49,48,50,56,69>>>>,
      <<"InverseNumber10", <<48,51,52>>, <<48,48,49,48,50,56,70>>>>,
      <<"SymbolArrowLeft", <<48,51,53>>, <<48,48,49,48,50,70,68>>>>,
      <<"SymbolArrowRight", <<48,51,54>>, <<48,48,49,48,50,70,69>>>>,
      <<"SymbolArrowUp", <<48,51,55>>, <<48,48,49,48,50,70,70>>>>,
      <<"SymbolArrowDown", <<48,51,56>>, <<48,48,49,48,51,48,48>>>>,
      <<"SymbolCircle", <<48,51,57>>, <<48,48,49,48,51,48,49>>>>,
      <<"SymbolTriangle", <<48,51,65>>, <<48,48,49,48,51,48,50>>>>,
      <<"SymbolSquare", <<48,51,66>>, <<48,48,49,48,51,48,51>>>>,
      <<"SymbolX", <<48,51,67>>, <<48,48,49,48,51,48,52>>>>,
      <<"SymbolNo", <<48,51,68>>, <<48,48,49,48,51,48,53>>>>,
      <<"SymbolWarning", <<48,51,69>>, <<48,48,49,48,51,48,54>>>>,
      <<"SymbolCheck", <<48,51,70>>, <<48,48,49,48,51,48,55>>>>,
      <<"SymbolStar", <<48,52,48>>, <<48,48,49,48,51,48,56>>>>,
      <<"SymbolQuestion", <<48,52,49>>, <<48,48,49,48,51,48,57>>>>,
      <<"SymbolExclamation", <<48,52,50>>, <<48,48,49,48,51,48,65>>>>,
      <<"SymbolPlus", <<48,52,51>>, <<48,48,49,48,51,48,66>>>>,
      <<"SymbolMinus", <<48,52,52>>, <<48,48,49,48,51,48,67>>>>,
      <<"SymbolClock", <<48,52,53>>, <<48,48,49,48,51,48,68>>>>,
      <<"SymbolBulb", <<48,52,54>>, <<48,48,49,48,51,48,69>>>>,
      <<"SymbolCog", <<48,52,55>>, <<48,48,49,48,51,48,70>>>>,
      <<"SymbolSearch", <<48,52,56>>, <<48,48,49,48,51,49,48>>>>,
      <<"SymbolSpeech", <<48,52,57>>, <<48,48,49,48,51,49,49>>>>,
      <<"SymbolHeart", <<48,52,65>>, <<48,48,49,48,51,49,50>>>>,
      <<"SymbolSpade", <<48,52,66>>, <<48,48,49,48,51,49,51>>>>,
      <<"SymbolClub", <<48,52,67>>, <<48,48,49,48,51,49,52>>>>,
      <<"SymbolDiamond", <<48,52,68>>, <<48,48,49,48,51,49,53>>>>,
      <<"SymbolDice", <<48,52,69>>, <<48,48,49,48,51,49,54>>>>,
      <<"CrystalFire", <<48,52,70>>, <<48,48,48,52,69,50,55>>>>,
      <<"CrystalIce", <<48,53,48>>, <<48,48,48,52,69,50,57>>>>,
      <<"CrystalWind", <<48,53,49>>, <<48,48,48,52,69,50,65>>>>,
      <<"CrystalEarth", <<48,53,50>>, <<48,48,48,52,69,50,67>>>>,
      <<"CrystalLightning", <<48,53,51>>, <<48,48,48,52,69,50,66>>>>,
      <<"CrystalWater", <<48,53,52>>, <<48,48,48,52,69,50,56>>>> }

\* macro_icon_to_key_and_id(icon): <<key, id>>
macro_icon_to_key_and_id(icon) ==
    << (CHOOSE a \in ToKeyAndIdArms : a[1] = icon)[2],
       (CHOOSE a \in ToKeyAndIdArms : a[1] = icon)[3] >>

\* the Result of a macro function: its kind, the message of an Err and the
\* value of an Ok; validate's None is the kind "None"
MacroResult(res, msg, out) == [ res |-> res, msg |-> msg, out |-> out ]

NoMacro == [ icon_key |-> <<>>, icon_id |-> <<>>, lines |-> <<>>, title |-> <<>> ]

\* <Macro as Validate>::validate
Macro_validate(m) ==
    IF Len(m.title) > 20
    THEN MacroResult("Overflow", "Title is longer than 20 characters.", NoMacro)
    ELSE IF macro_icon_from_key_and_id(m.icon_key, m.icon_id) = "None"
    THEN MacroResult("InvalidInput", "Macro icon is invalid.", NoMacro)
    ELSE IF Len(m.lines) < 15
    THEN MacroResult("Underflow", "Macro has fewer than 15 lines.", NoMacro)
    ELSE IF Len(m.lines) > 15
    THEN MacroResult("Overflow", "Macro has more than 15 lines.", NoMacro)
    ELSE IF \E i \in 1 .. Len(m.lines) : Len(m.lines[i]) > 180
    THEN MacroResult("Overflow", "Line is longer than 180 characters.", NoMacro)
    ELSE MacroResult("None", "", NoMacro)

\* <MacroData as Validate>::validate
MacroData_validate(m) ==
    IF Len(m.title) > 20
    THEN MacroResult("Overflow", "Title is longer than 20 characters.", NoMacro)
    ELSE IF macro_icon_from_key_and_id(m.icon_key, m.icon_id) = "None"
    THEN MacroResult("InvalidInput", "Macro icon is invalid.", NoMacro)
    ELSE IF Len(m.lines) < 15
    THEN MacroResult("Underflow", "Macro has fewer than 15 lines.", NoMacro)
    ELSE IF Len(m.lines) > 15
    THEN MacroResult("Overflow", "Macro has more than 15 lines.", NoMacro)
    ELSE IF \E i \in 1 .. Len(m.lines) : Len(m.lines[i]) > 180
    THEN MacroResult("Overflow", "Line is longer than 180 characters.", NoMacro)
    ELSE MacroResult("None", "", NoMacro)

\* the sections of as_sections / as_section_data, each made by new_section
\* (Section::new or SectionData::new): the first Err, or the Vec
sections_of(news) ==
    IF \E i \in 1 .. Len(news) : news[i].res # "Ok"
    THEN MacroResult(news[CHOOSE i \in 1 .. Len(news) :
                              /\ news[i].res # "Ok"
                              /\ \A j \in 1 .. i - 1 : news[j].res = "Ok"].res, "", <<>>)
    ELSE MacroResult("Ok", "", [ i \in 1 .. Len(news) |-> news[i].out ])

\* as_sections that writes the key before the id
Macro_as_sections_key_first(m) ==
    sections_of(<< Section_new(SECTION_TAG_TITLE, m.title),
                   Section_new(SECTION_TAG_ICON, m.icon_key),
                   Section_new(SECTION_TAG_KEY, m.icon_id) >>
                \o [ i \in 1 .. Len(m.lines) |-> Section_new(SECTION_TAG_LINE, m.lines[i]) ])

\* Macro::as_sections
Macro_as_sections(m) ==
    sections_of(<< Section_new(SECTION_TAG_TITLE, m.title),
                   Section_new(SECTION_TAG_ICON, m.icon_id),
                   Section_new(SECTION_TAG_KEY, m.icon_key) >>
                \o [ i \in 1 .. Len(m.lines) |-> Section_new(SECTION_TAG_LINE, m.lines[i]) ])

\* MacroData::as_section_data
MacroData_as_section_data(m) ==
    sections_of(<< SectionData_new(SECTION_TAG_TITLE, m.title),
                   SectionData_new(SECTION_TAG_ICON, m.icon_id),
                   SectionData_new(SECTION_TAG_KEY, m.icon_key) >>
                \o [ i \in 1 .. Len(m.lines) |->
                       SectionData_new(SECTION_TAG_LINE, m.lines[i]) ])

\* <Macro as AsBytes>::as_bytes, with the Result of as_sections
Macro_as_bytes_of(sections) ==
    IF sections.res # "Ok" THEN sections
    ELSE MacroResult("Ok", "", Concat([ i \in 1 .. Len(sections.out) |->
                                          Section_into_bytes(sections.out[i]) ]))

Macro_as_bytes(m) == Macro_as_bytes_of(Macro_as_sections(m))

\* <MacroData as AsBytes>::as_bytes, with the Result of as_section_data
MacroData_as_bytes_of(sections) ==
    IF sections.res # "Ok" THEN sections
    ELSE MacroResult("Ok", "", Concat([ i \in 1 .. Len(sections.out) |->
                                          SectionData_into_bytes(sections.out[i]) ]))

MacroData_as_bytes(m) == MacroData_as_bytes_of(MacroData_as_section_data(m))

\* from_sections_unsafe without the test of the third tag
Macro_from_sections_unsafe_no_key_check(sections) ==
    IF Len(sections) < 4
    THEN MacroResult("InvalidInput", "Macros require a minimum of 4 sections.", NoMacro)
    ELSE IF sections[1].tag # SECTION_TAG_TITLE
    THEN MacroResult("InvalidInput", "First section was not a Title (T) section.", NoMacro)
    ELSE IF sections[2].tag # SECTION_TAG_ICON
    THEN MacroResult("InvalidInput", "Second section was not a Icon (I) section.", NoMacro)
    ELSE IF \E i \in 4 .. Len(sections) : sections[i].tag # SECTION_TAG_LINE
    THEN MacroResult("InvalidInput", "Non-line (L) section in lines block.", NoMacro)
    ELSE MacroResult("Ok", "",
                     [ icon_key |-> sections[3].content,
                       icon_id |-> sections[2].content,
                       lines |-> [ i \in 1 .. Len(sections) - 3 |-> sections[i + 3].content ],
                       title |-> sections[1].content ])

\* Macro::from_sections_unsafe
Macro_from_sections_unsafe(sections) ==
    IF Len(sections) < 4
    THEN MacroResult("InvalidInput", "Macros require a minimum of 4 sections.", NoMacro)
    ELSE IF sections[1].tag # SECTION_TAG_TITLE
    THEN MacroResult("InvalidInput", "First section was not a Title (T) section.", NoMacro)
    ELSE IF sections[2].tag # SECTION_TAG_ICON
    THEN MacroResult("InvalidInput", "Second section was not a Icon (I) section.", NoMacro)
    ELSE IF sections[3].tag # SECTION_TAG_KEY
    THEN MacroResult("InvalidInput", "Third section was not a Key (K) section.", NoMacro)
    ELSE IF \E i \in 4 .. Len(sections) : sections[i].tag # SECTION_TAG_LINE
    THEN MacroResult("InvalidInput", "Non-line (L) section in lines block.", NoMacro)
    ELSE MacroResult("Ok", "",
                     [ icon_key |-> sections[3].content,
                       icon_id |-> sections[2].content,
                       lines |-> [ i \in 1 .. Len(sections) - 3 |-> sections[i + 3].content ],
                       title |-> sections[1].content ])

\* Macro::from_sections, with the Result of from_sections_unsafe
Macro_from_sections_of(res_macro) ==
    IF res_macro.res # "Ok" THEN res_macro
    ELSE IF Macro_validate(res_macro.out).res # "None" THEN Macro_validate(res_macro.out)
    ELSE res_macro

Macro_from_sections(sections) == Macro_from_sections_of(Macro_from_sections_unsafe(sections))

\* MacroData::from_section_data_unsafe
MacroData_from_section_data_unsafe(sections) ==
    IF Len(sections) < 4
    THEN MacroResult("InvalidInput", "Macros require a minimum of 4 sections.", NoMacro)
    ELSE IF sections[1].tag # SECTION_TAG_TITLE
    THEN MacroResult("InvalidInput", "First section was not a Title (T) section.", NoMacro)
    ELSE IF sections[2].tag # SECTION_TAG_ICON
    THEN MacroResult("InvalidInput", "Second section was not a Icon (I) section.", NoMacro)
    ELSE IF sections[3].tag # SECTION_TAG_KEY
    THEN MacroResult("InvalidInput", "Third section was not a Key (K) section.", NoMacro)
    ELSE IF \E i \in 4 .. Len(sections) : sections[i].tag # SECTION_TAG_LINE
    THEN MacroResult("InvalidInput", "Non-line (L) section in lines block.", NoMacro)
    ELSE MacroResult("Ok", "",
                     [ icon_key |-> sections[3].content,
                       icon_id |-> sections[2].content,
                       lines |-> [ i \in 1 .. Len(sections) - 3 |-> sections[i + 3].content ],
                       title |-> sections[1].content ])

\* MacroData::from_section_data, with the Result of from_section_data_unsafe
MacroData_from_section_data_of(res_macro) ==
    IF res_macro.res # "Ok" THEN res_macro
    ELSE IF MacroData_validate(res_macro.out).res # "None"
    THEN MacroData_validate(res_macro.out)
    ELSE res_macro

MacroData_from_section_data(sections) ==
    MacroData_from_section_data_of(MacroData_from_section_data_unsafe(sections))

\* Macro::new, with the macro built from the padded lines
Macro_new_of(res_macro) ==
    IF Macro_validate(res_macro).res # "None" THEN Macro_validate(res_macro)
    ELSE MacroResult("Ok", "", res_macro)

\* Macro::new(title, lines, icon)
Macro_new(title, lines, icon) ==
    Macro_new_of([ icon_id |-> macro_icon_to_key_and_id(icon)[2],
                   icon_key |-> macro_icon_to_key_and_id(icon)[1],
                   lines |-> lines \o [ i \in 1 .. 15 - Len(lines) |-> <<>> ],
                   title |-> title ])

\* MacroData::new, with the macro built from the padded lines
MacroData_new_of(res_macro) ==
    IF MacroData_validate(res_macro).res # "None" THEN MacroData_validate(res_macro)
    ELSE MacroResult("Ok", "", res_macro)

\* MacroData::new(title, lines, icon)
MacroData_new(title, lines, icon) ==
    MacroData_new_of([ icon_id |-> macro_icon_to_key_and_id(icon)[2],
                       icon_key |-> macro_icon_to_key_and_id(icon)[1],
                       lines |-> lines \o [ i \in 1 .. 15 - Len(lines) |-> <<>> ],
                       title |-> title ])

\* the first Err of the Results rs (`?` in a loop), or "None"
first_err(rs) ==
    IF \E i \in 1 .. Len(rs) : rs[i].res \notin {"Ok", "None"}
    THEN rs[CHOOSE i \in 1 .. Len(rs) :
                /\ rs[i].res \notin {"Ok", "None"}
                /\ \A j \in 1 .. i - 1 : rs[j].res \in {"Ok", "None"}]
    ELSE MacroResult("None", "", <<>>)

\* to_writeable_bytes_unsafe(macros)
to_writeable_bytes_unsafe(macros) ==
    IF first_err([ i \in 1 .. Len(macros) |-> Macro_as_bytes(macros[i]) ]).res # "None"
    THEN MacroResult(first_err([ i \in 1 .. Len(macros) |-> Macro_as_bytes(macros[i]) ]).res,
                     "", <<>>)
    ELSE MacroResult("Ok", "",
                     Concat([ i \in 1 .. Len(macros) |-> Macro_as_bytes(macros[i]).out ]))

\* to_writeable_bytes, after the count was checked, with the Result of the
\* Macro::new that makes the padding
to_writeable_bytes_padded(macros, padding) ==
    IF Len(macros) < EXPECTED_ITEM_COUNT /\ padding.res # "Ok"
    THEN [ padding EXCEPT !.out = <<>> ]
    ELSE IF first_err([ i \in 1 .. EXPECTED_ITEM_COUNT |->
                          Macro_validate((macros \o [ j \in 1 .. EXPECTED_ITEM_COUNT - Len(macros)
                                                        |-> padding.out ])[i]) ]).res # "None"
    THEN [ first_err([ i \in 1 .. EXPECTED_ITEM_COUNT |->
                         Macro_validate((macros \o [ j \in 1 .. EXPECTED_ITEM_COUNT - Len(macros)
                                                       |-> padding.out ])[i]) ])
             EXCEPT !.out = <<>> ]
    ELSE to_writeable_bytes_unsafe(
             macros \o [ j \in 1 .. EXPECTED_ITEM_COUNT - Len(macros) |-> padding.out ])

\* to_writeable_bytes(macros)
to_writeable_bytes(macros) ==
    IF Len(macros) > EXPECTED_ITEM_COUNT
    THEN MacroResult("Overflow", "A valid macro file cannot contain more than 100 macros.",
                     <<>>)
    ELSE to_writeable_bytes_padded(
             macros, Macro_new(<<>>, [ i \in 1 .. 15 |-> <<>> ], "NoIcon"))

\* as_writeable_bytes_unsafe(macros)
as_writeable_bytes_unsafe(macros) ==
    IF first_err([ i \in 1 .. Len(macros) |-> MacroData_as_bytes(macros[i]) ]).res # "None"
    THEN MacroResult(
             first_err([ i \in 1 .. Len(macros) |-> MacroData_as_bytes(macros[i]) ]).res,
             "", <<>>)
    ELSE MacroResult("Ok", "",
                     Concat([ i \in 1 .. Len(macros) |-> MacroData_as_bytes(macros[i]).out ]))

\* as_writeable_bytes, after the count was checked, with the Result of the
\* MacroData::new that makes the padding
as_writeable_bytes_padded(macros, padding) ==
    IF Len(macros) < EXPECTED_ITEM_COUNT /\ padding.res # "Ok"
    THEN [ padding EXCEPT !.out = <<>> ]
    ELSE IF first_err([ i \in 1 .. EXPECTED_ITEM_COUNT |->
                          MacroData_validate(
                              (macros \o [ j \in 1 .. EXPECTED_ITEM_COUNT - Len(macros)
                                             |-> padding.out ])[i]) ]).res # "None"
    THEN [ first_err([ i \in 1 .. EXPECTED_ITEM_COUNT |->
                         MacroData_validate(
                             (macros \o [ j \in 1 .. EXPECTED_ITEM_COUNT - Len(macros)
                                            |-> padding.out ])[i]) ])
             EXCEPT !.out = <<>> ]
    ELSE as_writeable_bytes_unsafe(
             macros \o [ j \in 1 .. EXPECTED_ITEM_COUNT - Len(macros) |-> padding.out ])

\* as_writeable_bytes(macros)
as_writeable_bytes(macros) ==
    IF Len(macros) > EXPECTED_ITEM_COUNT
    THEN MacroResult("Overflow", "A valid macro file cannot contain more than 100 macros.",
                     <<>>)
    ELSE as_writeable_bytes_padded(
             macros, MacroData_new(<<>>, [ i \in 1 .. 15 |-> <<>> ], "NoIcon"))

\* the state of the loop of as_macro_vec / read_macro_content_unsafe: the
\* macros pushed, the sections of the macro being collected, and the Err that
\* left the loop
Grouping(res, msg, macro_vec, sec_vec) ==
    [ res |-> res, msg |-> msg, macro_vec |-> macro_vec, sec_vec |-> sec_vec ]

\* `macro_vec.push(from_sections_unsafe(sec_vec)?)` with the Result pushed;
\* sec_vec is what the loop collects next
pushed(st, res_macro, sec_vec) ==
    IF res_macro.res # "Ok" THEN Grouping(res_macro.res, res_macro.msg, <<>>, <<>>)
    ELSE Grouping("Ok", "", Append(st.macro_vec, res_macro.out), sec_vec)

\* as_macro_vec in which a Title does not close the macro before it
as_macro_vec_turn_no_push(st, next_section) ==
    IF st.res # "Ok" THEN st
    ELSE Grouping("Ok", "", st.macro_vec, Append(st.sec_vec, next_section))

\* as_macro_vec: one turn of `for next_section in sections`
as_macro_vec_turn(st, next_section) ==
    IF st.res # "Ok" THEN st
    ELSE IF next_section.tag = SECTION_TAG_TITLE /\ st.sec_vec # <<>>
    THEN pushed(st, MacroData_from_section_data_unsafe(st.sec_vec), <<next_section>>)
    ELSE Grouping("Ok", "", st.macro_vec, Append(st.sec_vec, next_section))

\* as_macro_vec: the turns for sections[lo .. hi], run as two halves, one
\* after the other; an Err leaves the loop
RECURSIVE as_macro_vec_loop(_, _, _, _)
as_macro_vec_loop(sections, st, lo, hi) ==
    IF st.res # "Ok" \/ lo > hi THEN st
    ELSE IF lo = hi THEN as_macro_vec_turn(st, sections[lo])
    ELSE as_macro_vec_loop(sections,
                           as_macro_vec_loop(sections, st, lo, (lo + hi) \div 2),
                           (lo + hi) \div 2 + 1, hi)

\* as_macro_vec, after the loop: "Push last macro"
as_macro_vec_last(st) ==
    IF st.res # "Ok" THEN MacroResult(st.res, st.msg, <<>>)
    ELSE IF st.sec_vec # <<>>
    THEN IF MacroData_from_section_data_unsafe(st.sec_vec).res # "Ok"
         THEN [ MacroData_from_section_data_unsafe(st.sec_vec) EXCEPT !.out = <<>> ]
         ELSE MacroResult("Ok", "",
                          Append(st.macro_vec,
                                 MacroData_from_section_data_unsafe(st.sec_vec).out))
    ELSE MacroResult("Ok", "", st.macro_vec)

\* as_macro_vec, with the Result of as_section_vec
as_macro_vec_of(sections) ==
    IF sections.res # "Ok" THEN MacroResult(sections.res, "", <<>>)
    ELSE as_macro_vec_last(
             as_macro_vec_loop(sections.out, Grouping("Ok", "", <<>>, <<>>),
                               1, Len(sections.out)))

\* as_macro_vec(bytes)
as_macro_vec(bytes) == as_macro_vec_of(as_section_vec(bytes))

\* read_macro_content_unsafe: one turn of `for next_section in sections`
read_macro_content_turn(st, next_section) ==
    IF st.res # "Ok" THEN st
    ELSE IF next_section.tag = SECTION_TAG_TITLE /\ st.sec_vec # <<>>
    THEN pushed(st, Macro_from_sections_unsafe(st.sec_vec), <<next_section>>)
    ELSE Grouping("Ok", "", st.macro_vec, Append(st.sec_vec, next_section))

\* read_macro_content_unsafe: the turns for sections[lo .. hi], run as two
\* halves, one after the other; an Err leaves the loop
RECURSIVE read_macro_content_loop(_, _, _, _)
read_macro_content_loop(sections, st, lo, hi) ==
    IF st.res # "Ok" \/ lo > hi THEN st
    ELSE IF lo = hi THEN read_macro_content_turn(st, sections[lo])
    ELSE read_macro_content_loop(sections,
                                 read_macro_content_loop(sections, st, lo, (lo + hi) \div 2),
                                 (lo + hi) \div 2 + 1, hi)

\* read_macro_content_unsafe, after the loop: "Push last macro"
read_macro_content_last(st) ==
    IF st.res # "Ok" THEN MacroResult(st.res, st.msg, <<>>)
    ELSE IF st.sec_vec # <<>>
    THEN IF Macro_from_sections_unsafe(st.sec_vec).res # "Ok"
         THEN [ Macro_from_sections_unsafe(st.sec_vec) EXCEPT !.out = <<>> ]
         ELSE MacroResult("Ok", "",
                          Append(st.macro_vec, Macro_from_sections_unsafe(st.sec_vec).out))
    ELSE MacroResult("Ok", "", st.macro_vec)

\* read_section_content_unsafe(path), with the outcome of read_content(path)
read_section_content_unsafe_of(content) ==
    IF content.res # "Ok" THEN SecResult(content.res, <<>>, 0)
    ELSE as_section_vec(content.buf)

\* read_section_content(path) on the file of len bytes: check_type(path) reads
\* the type from the header
read_section_content(len, bytes, checks) ==
    IF open(len, bytes).res # "Ok" THEN SecResult(open(len, bytes).res, <<>>, 0)
    ELSE IF open(len, bytes).s.file_type \notin SECTION_BASED_TYPES
    THEN SecResult("IncorrectType", <<>>, 0)
    ELSE read_section_content_unsafe_of(read_content(len, bytes, checks))

\* read_macro_content_unsafe, with the Result of read_section_content
read_macro_content_unsafe_of(sections) ==
    IF sections.res # "Ok" THEN MacroResult(sections.res, "", <<>>)
    ELSE read_macro_content_last(
             read_macro_content_loop(sections.out, Grouping("Ok", "", <<>>, <<>>),
                                     1, Len(sections.out)))

\* read_macro_content_unsafe(path) on the file of len bytes
read_macro_content_unsafe(len, bytes, checks) ==
    read_macro_content_unsafe_of(read_section_content(len, bytes, checks))

\* read_macro_content(path): check_type(path) reads the type from the header
read_macro_content(len, bytes, checks) ==
    IF open(len, bytes).res # "Ok" THEN MacroResult(open(len, bytes).res, "", <<>>)
    ELSE IF open(len, bytes).s.file_type # "Macro"
    THEN MacroResult("IncorrectType", "Attempted to read a macro from a non-macro file.", <<>>)
    ELSE read_macro_content_unsafe(len, bytes, checks)

\* read_macro_unsafe: `break`, then Macro::from_sections_unsafe(sec_vec)
read_macro_unsafe_done(o, res_macro) ==
    IF res_macro.res # "Ok" THEN Decoded(o, res_macro.res, NoMacro)
    ELSE Decoded(o, "Ok", res_macro.out)

RECURSIVE read_macro_unsafe_loop(_, _, _)

\* read_macro_unsafe: one turn of the loop, with the Result of its read_section
read_macro_unsafe_turn(next_section, sec_vec, checks) ==
    IF next_section.res = "EndOfFile"
    THEN read_macro_unsafe_done(next_section, Macro_from_sections_unsafe(sec_vec))
    ELSE IF next_section.res # "Ok" THEN Decoded(next_section, next_section.res, NoMacro)
    ELSE IF next_section.out.tag = SECTION_TAG_TITLE
    THEN read_macro_unsafe_done(next_section, Macro_from_sections_unsafe(sec_vec))
    ELSE read_macro_unsafe_loop(next_section.s, Append(sec_vec, next_section.out), checks)

\* read_macro_unsafe: the loop, with the DATFile s and the sections pushed
read_macro_unsafe_loop(s, sec_vec, checks) ==
    read_macro_unsafe_turn(read_section(s, checks), sec_vec, checks)

\* read_macro_unsafe, with the Result of the first read_section
read_macro_unsafe_titled(title_sec, checks) ==
    IF title_sec.res # "Ok" THEN Decoded(title_sec, title_sec.res, NoMacro)
    ELSE read_macro_unsafe_loop(title_sec.s, <<title_sec.out>>, checks)

\* read_macro_unsafe(dat_file)
read_macro_unsafe(s, checks) == read_macro_unsafe_titled(read_section(s, checks), checks)

\* read_macro(dat_file)
read_macro(s, checks) ==
    IF s.file_type # "Macro" THEN Decoded([s |-> s], "IncorrectType", NoMacro)
    ELSE read_macro_unsafe(s, checks)

----------------------------------------------------------------------------
(* Inputs of the model *)

FillByte == 1      \* what a caller's read buffer holds before the call
DataByte == 34     \* the non-zero byte callers write

CreateTypes == {"Macro", "Unknown"}
EndBytes == {255}
Sizes == 0 .. MaxSize
WriteBufs == UNION { [1..n -> {0, DataByte}] : n \in 0..MaxBuf }
ReadLens == 0 .. MaxBuf
StartOffsets == 0 .. MaxSize
CurrentOffsets == {-1, 0, 1}
EndOffsets == (0 - MaxSize) .. 1
WideStartOffsets == { U32_RANGE + k : k \in 0 .. MaxWide }

\* the raw offsets the callers of the model seek to: the header, the content
\* region and one byte more, and the same stretch 2^32 further on
SeekTargets == (0 .. HEADER_SIZE + MaxSize + 1)
               \cup (U32_RANGE + HEADER_SIZE - 1 .. U32_RANGE + HEADER_SIZE + MaxWide + 1)

----------------------------------------------------------------------------
(* Actions *)

\* `last`: the call made, with the content_size and cursor it found
Call(op, origin, num, data, out) ==
    [ op |-> op, origin |-> origin, num |-> num, data |-> data,
      res |-> out.res, val |-> out.val, buf |-> out.buf,
      pre_size |-> content_size, pre_pos |-> raw_pos, out |-> <<>> ]

NoCall == [ op |-> "none", origin |-> "", num |-> 0, data |-> <<>>,
            res |-> "", val |-> 0, buf |-> <<>>, pre_size |-> 0, pre_pos |-> 0, out |-> <<>> ]

\* the state an outcome leaves, with the status it leaves the handle in
Install(out, st) ==
    /\ content_size' = out.s.content_size
    /\ file_type' = out.s.file_type
    /\ header_end_byte' = out.s.header_end_byte
    /\ max_size' = out.s.max_size
    /\ raw_pos' = out.s.raw_pos
    /\ disk_len' = out.s.disk_len
    /\ disk_bytes' = out.s.disk_bytes
    /\ status' = st
    /\ UNCHANGED overflow_checks

AfterCall(out) == IF out.res = "panic" THEN "panic" ELSE "open"

CreateWith(types, sizes) ==
    /\ status = "none"
    /\ \E t \in types, cs \in sizes, ms \in sizes, eb \in EndBytes :
         LET out == create_unsafe(t, cs, ms, eb, overflow_checks)
         IN  /\ Install(out, IF out.res = "Ok" THEN "open"
                             ELSE IF out.res = "panic" THEN "panic" ELSE "failed")
             /\ last' = Call("create_unsafe", t, cs, <<ms, eb>>, out)
             /\ written' = {}

OpenFile ==
    /\ status = "closed"
    /\ LET out == open(disk_len, disk_bytes)
       IN  /\ Install(out, IF out.res = "Ok" THEN "open" ELSE "failed")
           /\ last' = Call("open", "", 0, <<>>, out)
           /\ UNCHANGED written

SeekIn(origin, offsets) ==
    /\ status = "open"
    /\ \E k \in offsets :
         LET out == seek(Self, origin, k, overflow_checks)
         IN  /\ out.s.raw_pos \in SeekTargets
             /\ Install(out, AfterCall(out))
             /\ last' = Call("seek", origin, k, <<>>, out)
             /\ UNCHANGED written

ReadOf(lens) ==
    /\ status = "open"
    /\ \E n \in lens :
         LET out == read(Self, Fill(FillByte, n), overflow_checks)
         IN  /\ Install(out, AfterCall(out))
             /\ last' = Call("read", "", n, <<>>, out)
             /\ UNCHANGED written

WriteOf(bufs) ==
    /\ status = "open"
    /\ \E buf \in bufs :
         LET out == write(Self, buf, overflow_checks)
         IN  /\ out.s.raw_pos \in SeekTargets
             /\ Install(out, AfterCall(out))
             /\ last' = Call("write", "", Len(buf), buf, out)
             /\ written' = IF out.res = "Ok"
                           THEN written \cup { raw_pos - HEADER_SIZE + i : i \in 0 .. out.val - 1 }
                           ELSE written

SetContentSizeTo(sizes) ==
    /\ status = "open"
    /\ \E n \in sizes :
         LET out == set_content_size(Self, n, overflow_checks)
         IN  /\ Install(out, AfterCall(out))
             /\ last' = Call("set_content_size", "", n, <<>>, out)
             /\ UNCHANGED written

SetMaxSizeTo(sizes) ==
    /\ status = "open"
    /\ \E n \in sizes :
         LET out == set_max_size(Self, n, overflow_checks)
         IN  /\ Install(out, AfterCall(out))
             /\ last' = Call("set_max_size", "", n, <<>>, out)
             /\ UNCHANGED written

\* the DATFile of a convenience function is dropped when it returns
Dropped(out) ==
    [out EXCEPT !.s = NoFile(out.s.disk_len, out.s.disk_bytes)]

Closing(out) == IF out.res = "panic" THEN "panic" ELSE "closed"

CreateWithContentOf(types, contents) ==
    /\ status = "none"
    /\ \E t \in types, content \in contents :
         LET out == create_with_content(t, content, overflow_checks)
         IN  /\ Install(out, IF out.res = "Ok" THEN "open"
                             ELSE IF out.res = "panic" THEN "panic" ELSE "failed")
             /\ last' = Call("create_with_content", t, Len(content), content, out)
             /\ written' = IF out.res = "Ok" THEN 0 .. Len(content) - 1 ELSE {}

WriteContentOf(bufs) ==
    /\ status \in {"open", "closed"}
    /\ \E buf \in bufs :
         LET out == write_content(disk_len, disk_bytes, buf, overflow_checks)
         IN  /\ Install(Dropped(out), Closing(out))
             /\ last' = [ Call("write_content", "", Len(buf), buf, out)
                           EXCEPT !.pre_size =
                               FromLeBytes(BytesAt(disk_bytes, INDEX_CONTENT_SIZE, 4)),
                                  !.pre_pos = 0 ]
             /\ written' = IF out.res = "Ok" THEN written \cup (0 .. Len(buf) - 1)
                           ELSE written

ReadContent ==
    /\ status \in {"open", "closed"}
    /\ LET out == read_content(disk_len, disk_bytes, overflow_checks)
       IN  /\ Install(Dropped(out), Closing(out))
           /\ last' = [ Call("read_content", "", 0, <<>>, out)
                         EXCEPT !.pre_size =
                             FromLeBytes(BytesAt(disk_bytes, INDEX_CONTENT_SIZE, 4)),
                                !.pre_pos = 0 ]
           /\ UNCHANGED written

Create == CreateWith(CreateTypes, Sizes)
SeekStart == SeekIn("Start", StartOffsets)
SeekCurrent == SeekIn("Current", CurrentOffsets)
SeekEnd == SeekIn("End", EndOffsets)
Read == ReadOf(ReadLens)
Write == WriteOf(WriteBufs)
SetContentSize == SetContentSizeTo(Sizes)
SetMaxSize == SetMaxSizeTo(Sizes)

----------------------------------------------------------------------------
(* Specifications *)

Blank ==
    /\ content_size = 0
    /\ file_type = "Unknown"
    /\ header_end_byte = 0
    /\ max_size = 0
    /\ raw_pos = 0
    /\ last = NoCall
    /\ overflow_checks \in BOOLEAN
    /\ written = {}

\* no file yet: the program creates one and works on it
Init ==
    /\ Blank
    /\ status = "none"
    /\ disk_len = 0
    /\ disk_bytes = NoBytes

Next ==
    \/ Create
    \/ SeekStart
    \/ SeekCurrent
    \/ SeekEnd
    \/ Read
    \/ Write
    \/ SetContentSize
    \/ SetMaxSize

Spec == Init /\ [][Next]_vars

\* The same program with callers that also seek to offsets of 2^32 and more.
\* The other arguments are drawn from smaller sets.
WideSizes == 1 .. 2
WideBufs == { <<DataByte>> }
HugeSizes == { 1, U32_RANGE - 1 }     \* 1 and u32::MAX

CreateSmall == CreateWith({"Unknown"}, WideSizes)
SeekStartWide == SeekIn("Start", WideStartOffsets)
SeekStartNear == SeekIn("Start", {0})
ReadOne == ReadOf({1})
WriteOne == WriteOf(WideBufs)
SetContentSizeSmall == SetContentSizeTo(WideSizes)
SetMaxSizeSmall == SetMaxSizeTo(WideSizes)
CreateHuge == CreateWith({"Unknown"}, HugeSizes)
SetMaxSizeHuge == SetMaxSizeTo(HugeSizes)

NextWide ==
    \/ CreateSmall
    \/ SeekStartWide
    \/ SeekStartNear
    \/ ReadOne
    \/ WriteOne
    \/ SetContentSizeSmall
    \/ SetMaxSizeSmall
    \/ CreateHuge
    \/ SetMaxSizeHuge

SpecWide == Init /\ [][NextWide]_vars

\* A file somebody else wrote: any header bytes from small sets, then open
HeaderChoices ==
    { <<t0, t1, t2, t3, m0, m1, 0, 0, c0, c1, 0, 0, 0, 0, 0, 0, eb>> :
        t0 \in {0, 1}, t1 \in {0, 1}, t2 \in {0, 2}, t3 \in {0, 1},
        m0 \in 0 .. MaxSize, m1 \in {0, 1}, c0 \in 0 .. MaxSize, c1 \in {0, 1},
        eb \in {0, 255} }

InitOpen ==
    /\ Blank
    /\ status = "closed"
    /\ \E h \in HeaderChoices :
         /\ disk_bytes = PutBytes(NoBytes, 0, h)
         /\ disk_len \in { HEADER_SIZE - 1, FromLeBytes(SubSeq(h, 5, 8)) + MAX_SIZE_OFFSET }

SpecOpen == InitOpen /\ [][OpenFile]_vars

\* The convenience functions: files are created, then rewritten and read
\* back as a whole through their path, and opened again.
ContentTypes == {"GoldSaucer", "Unknown"}
ContentBufs ==
    { <<>>, <<DataByte>>, Fill(DataByte, get_default_max_size_for_type("GoldSaucer")) }

CreateWithContent == CreateWithContentOf(ContentTypes, ContentBufs)
WriteContent == WriteContentOf(WriteBufs)

NextContent ==
    \/ Create
    \/ CreateWithContent
    \/ WriteContent
    \/ ReadContent
    \/ OpenFile

SpecContent == Init /\ [][NextContent]_vars

----------------------------------------------------------------------------
(* The section functions.  They are pure: a caller holds a byte buffer      *)
(* (`last.data`, drawn by the initial state) and applies one function to    *)
(* it; `last` then names the function and holds its result in res, out and  *)
(* val (the cursor of as_section_vec).                                      *)

TagByte == 65      \* "A"
LeadByte == 194    \* 0xc2: starts a two-byte UTF-8 sequence; 0xc2 0x80 is U+0080
BigByte == 88      \* "X"

\* every sequence over `bytes` of at most n elements
SeqsUpTo(bytes, n) == UNION { [1..k -> bytes] : k \in 0..n }

\* payloads: with and without NUL, valid and invalid UTF-8
Payloads == SeqsUpTo({0, TagByte, LeadByte}, MaxContent) \cup { <<LeadByte, 128>> }

\* whole records: tag, declared size of payload and terminator, payload, and
\* the byte at the declared end
VecRecords ==
    { <<t>> \o U16ToLeBytes(Len(p) + 1) \o p \o <<e>> :
        t \in {TagByte, LeadByte}, p \in Payloads, e \in {0, TagByte} }

VecBufs == { Concat(rs) : rs \in SeqsUpTo(VecRecords, MaxRecords) }

\* single records whose declared size may differ from what follows the header
RecordBufs ==
    { <<t, lo, hi>> \o rest :
        t \in {TagByte, LeadByte}, lo \in 0 .. MaxContent + 2, hi \in {0, 1},
        rest \in SeqsUpTo({0, TagByte, LeadByte}, MaxContent + 1)
                 \cup { <<LeadByte, 128, 0>> } }

\* buffers too short to hold a header
ShortBufs == { <<TagByte>>, <<LeadByte>>, <<TagByte, 1>> }

\* contents at the limit of the 16-bit size field
BigContents == { Fill(BigByte, U16_MAX - 1), Fill(BigByte, U16_MAX) }

\* what callers hold: contents for the constructors, buffers for the decoders
SectionBufs == Payloads \cup VecBufs \cup RecordBufs \cup ShortBufs \cup BigContents

\* the tags callers give to the constructors
NewTags == { <<>>, <<TagByte>>, <<TagByte, TagByte>>, <<LeadByte, 128>> }

InitSection ==
    /\ content_size = 0
    /\ file_type = "Unknown"
    /\ header_end_byte = 0
    /\ max_size = 0
    /\ raw_pos = 0
    /\ overflow_checks = TRUE    \* no section function has arithmetic that can overflow
    /\ written = {}
    /\ status = "none"
    /\ disk_len = 0
    /\ disk_bytes = NoBytes
    /\ \E b \in SectionBufs : last = [NoCall EXCEPT !.data = b]

\* `last` after a section function returned r
SectionCall(op, tag, r) ==
    /\ last' = [last EXCEPT !.op = op, !.buf = tag, !.res = r.res,
                            !.out = r.out, !.val = r.cursor]
    /\ UNCHANGED << content_size, file_type, header_end_byte, max_size, raw_pos,
                    disk_len, disk_bytes, status, overflow_checks, written >>

\* Section::new(tag, content): the content is a String, so valid UTF-8
SectionNew ==
    /\ last.op = "none"
    /\ from_utf8(last.data) = TRUE
    /\ \E tag \in NewTags : SectionCall("Section::new", tag, Section_new(tag, last.data))

SectionDataNew ==
    /\ last.op = "none"
    /\ from_utf8(last.data) = TRUE
    /\ \E tag \in NewTags :
         SectionCall("SectionData::new", tag, SectionData_new(tag, last.data))

\* Vec::<u8>::from(section) on the section a constructor returned
SectionIntoBytes ==
    /\ last.op = "Section::new"
    /\ last.res = "Ok"
    /\ SectionCall("Vec::from(Section)", Section_into_bytes(last.out),
                   SecResult("Ok", last.out, 0))

SectionDataIntoBytes ==
    /\ last.op = "SectionData::new"
    /\ last.res = "Ok"
    /\ SectionCall("Vec::from(SectionData)", SectionData_into_bytes(last.out),
                   SecResult("Ok", last.out, 0))

SectionTryFrom ==
    /\ last.op = "none"
    /\ SectionCall("Section::try_from", <<>>, Section_try_from(last.data))

SectionDataTryFrom ==
    /\ last.op = "none"
    /\ SectionCall("SectionData::try_from", <<>>, SectionData_try_from(last.data))

AsSection ==
    /\ last.op = "none"
    /\ SectionCall("as_section", <<>>, as_section(last.data))

AsSectionVec ==
    /\ last.op = "none"
    /\ SectionCall("as_section_vec", <<>>, as_section_vec(last.data))

NextSection ==
    \/ SectionNew
    \/ SectionDataNew
    \/ SectionIntoBytes
    \/ SectionDataIntoBytes
    \/ SectionTryFrom
    \/ SectionDataTryFrom
    \/ AsSection
    \/ AsSectionVec

SpecSection == InitSection /\ [][NextSection]_vars

----------------------------------------------------------------------------
(* Sections read from a DATFile.  The file was made as create_with_content  *)
(* makes one (create_unsafe, write_all, seek to the start) and holds whole  *)
(* records or a part of them; callers read it section by section.          *)

\* the records of the files with the tag t: payloads of at most one character
FileRecords(t) ==
    { <<t>> \o U16ToLeBytes(Len(p) + 1) \o p \o <<0>> :
        p \in { <<>>, <<TagByte>>, <<LeadByte>>, <<LeadByte, 128>> } }

\* contents: up to MaxRecords records, then possibly one whose tag is not
\* UTF-8, cut anywhere; and a header that declares 0
FileContents ==
    UNION { { SubSeq(Concat(rs) \o r, 1, n) : n \in 0 .. Len(Concat(rs) \o r) } :
            rs \in SeqsUpTo(FileRecords(TagByte), MaxRecords),
            r \in {<<>>} \cup FileRecords(LeadByte) }
    \cup { <<TagByte, 0, 0>> }

\* section-based with and without a mask, and not section-based
FileTypes == {"Macro", "Unknown", "GoldSaucer"}

\* the DATFile after create_unsafe, write_all(content) and seek(Start(0))
FileWith(t, content, checks) ==
    create_with_content_created(
        create_unsafe(t, 1, Len(content) + 1,
                      unwrap_or_0(get_default_end_byte_for_type(t)), checks),
        content, checks)

\* the variables hold the DATFile s and its file
Holds(s) ==
    /\ content_size = s.content_size
    /\ file_type = s.file_type
    /\ header_end_byte = s.header_end_byte
    /\ max_size = s.max_size
    /\ raw_pos = s.raw_pos
    /\ disk_len = s.disk_len
    /\ disk_bytes = s.disk_bytes

InitRead ==
    /\ overflow_checks \in BOOLEAN
    /\ last = NoCall
    /\ status = "open"
    /\ \E t \in FileTypes, content \in FileContents :
         /\ FileWith(t, content, overflow_checks).res = "Ok"
         /\ Holds(FileWith(t, content, overflow_checks).s)
         /\ written = 0 .. Len(content) - 1

\* `last` after a function that decodes from the DATFile returned out
Decoding(op, out) ==
    /\ Install(out, AfterCall(out))
    /\ last' = [ Call(op, "", 0, <<>>, out) EXCEPT !.out = out.out ]
    /\ UNCHANGED written

ReadSection ==
    /\ status = "open"
    /\ Decoding("read_section", read_section(Self, overflow_checks))

ReadSectionUnsafe ==
    /\ status = "open"
    /\ Decoding("read_section_unsafe", read_section_unsafe(Self, overflow_checks))

NextRead ==
    \/ ReadSection
    \/ ReadSectionUnsafe

SpecRead == InitRead /\ [][NextRead]_vars

----------------------------------------------------------------------------
(* The macro functions that take no file.  The input is drawn into          *)
(* last.data as [kind, v]: a Macro, a Vec of sections, a slice of Macros   *)
(* or a byte buffer.                                                       *)

\* n two-byte characters
Chars(n) == Concat([ i \in 1 .. n |-> <<LeadByte, 128>> ])

\* titles at and over the limit of 20, in bytes and in characters; "\0"
Titles ==
    { <<>>, <<TagByte>>, Fill(TagByte, 20), Fill(TagByte, 21),
      Chars(10), Chars(11), Chars(20), Chars(21), <<0>> }

\* lines at and over the limit of 180, in bytes and in characters; "\0"
Lines ==
    { <<>>, <<TagByte>>, Fill(TagByte, 180), Fill(TagByte, 181),
      Chars(90), Chars(91), Chars(180), Chars(181), <<0>> }

\* 1, 14, 15 or 16 lines, empty but for the first or the last; 15 lines that
\* all differ
LineVecs ==
    { [ i \in 1 .. n |-> IF i = p THEN l ELSE <<>> ] :
        n \in {1, 14, 15, 16}, p \in {1, 15}, l \in Lines }
    \cup { [ i \in 1 .. 15 |-> Fill(TagByte, i) ] }

\* <<key, id>>: ("000", "0000000") is NoIcon, ("001", "00101D1") is
\* DefaultIcon, ("000", "00101D1") is no icon
NoIconPair == << <<48, 48, 48>>, <<48, 48, 48, 48, 48, 48, 48>> >>
DefaultIconPair == << <<48, 48, 49>>, <<48, 48, 49, 48, 49, 68, 49>> >>
WrongPair == << <<48, 48, 48>>, <<48, 48, 49, 48, 49, 68, 49>> >>

IconPairs == { NoIconPair, DefaultIconPair, WrongPair, << <<>>, <<>> >> }

Macros ==
    { [ icon_key |-> ic[1], icon_id |-> ic[2], lines |-> ls, title |-> t ] :
        t \in Titles, ic \in IconPairs, ls \in LineVecs }

\* the macros whose sections are given to from_sections
FewMacros ==
    { m \in Macros :
        /\ m.title \in { <<TagByte>>, Fill(TagByte, 21) }
        /\ m.icon_id # <<>>
        /\ \A i \in 1 .. Len(m.lines) : i # 1 => m.lines[i] = <<>>
        /\ m.lines[1] \in { <<TagByte>>, Fill(TagByte, 181) } }

\* sections with the tags at the positions in d changed: a line becomes a
\* Title, another section a line
Retagged(sections, d) ==
    [ i \in 1 .. Len(sections) |->
        IF i \in d
        THEN [ sections[i] EXCEPT
                 !.tag = IF @ = SECTION_TAG_LINE THEN SECTION_TAG_TITLE
                         ELSE SECTION_TAG_LINE ]
        ELSE sections[i] ]

\* the sections of a macro: cut short, or with up to two wrong tags
SectionVecs ==
    UNION { { SubSeq(Macro_as_sections(m).out, 1, k) : k \in 0 .. 3 }
            \cup { Retagged(Macro_as_sections(m).out, d) :
                     d \in { e \in SUBSET {1, 2, 3, 4, Len(m.lines) + 3} :
                               Cardinality(e) <= 2 } } :
            m \in FewMacros }

\* a macro of 15 lines, empty but for the first
Plain(title, ic) ==
    [ icon_key |-> ic[1], icon_id |-> ic[2], title |-> title,
      lines |-> [ i \in 1 .. 15 |-> IF i = 1 THEN <<TagByte>> ELSE <<>> ] ]

\* the macros of the slices: two valid ones, "\0" as the title, a title of 21
\* bytes, an icon that is none, 14 lines
SliceMacros ==
    { Plain(<<TagByte>>, DefaultIconPair), Plain(<<BigByte>>, NoIconPair),
      Plain(<<0>>, DefaultIconPair), Plain(Fill(TagByte, 21), DefaultIconPair),
      Plain(<<TagByte>>, WrongPair),
      [ Plain(<<TagByte>>, DefaultIconPair) EXCEPT !.lines = SubSeq(@, 1, 14) ] }

\* slices of 0, 1, 2 and about EXPECTED_ITEM_COUNT macros; the first two are
\* any of SliceMacros, the others are equal
MacroSlices ==
    { <<>> } \cup { <<m>> : m \in SliceMacros }
    \cup { [ i \in 1 .. n |-> IF i = 1 THEN m1 ELSE IF i = 2 THEN m2 ELSE m3 ] :
             n \in { 2, EXPECTED_ITEM_COUNT - 1, EXPECTED_ITEM_COUNT,
                     EXPECTED_ITEM_COUNT + 1 },
             m1 \in SliceMacros, m2 \in SliceMacros,
             m3 \in { Plain(<<TagByte>>, DefaultIconPair) } }

\* the tags of a group of sections: two macros, and groups that are no macro
GroupTags ==
    { << SECTION_TAG_TITLE, SECTION_TAG_ICON, SECTION_TAG_KEY, SECTION_TAG_LINE >>,
      << SECTION_TAG_TITLE, SECTION_TAG_ICON, SECTION_TAG_KEY, SECTION_TAG_LINE,
         SECTION_TAG_LINE >>,
      << SECTION_TAG_TITLE, SECTION_TAG_ICON, SECTION_TAG_KEY >>,
      << SECTION_TAG_TITLE, SECTION_TAG_KEY, SECTION_TAG_ICON, SECTION_TAG_LINE >>,
      << SECTION_TAG_TITLE, SECTION_TAG_ICON, SECTION_TAG_KEY, SECTION_TAG_LINE,
         SECTION_TAG_ICON >> }

\* the tags of what precedes the first Title
StrayTags ==
    { <<>>, << SECTION_TAG_LINE >>,
      << SECTION_TAG_ICON, SECTION_TAG_KEY, SECTION_TAG_LINE, SECTION_TAG_LINE >> }

\* the bytes of sections with these tags; the title is given, the other
\* contents are those of a macro without icon, and line i is i letters
GroupBytes(tags, title) ==
    Concat([ i \in 1 .. Len(tags) |->
               Section_into_bytes(
                   Section_new(tags[i],
                               IF tags[i] = SECTION_TAG_TITLE THEN title
                               ELSE IF tags[i] = SECTION_TAG_ICON
                               THEN <<48, 48, 48, 48, 48, 48, 48>>
                               ELSE IF tags[i] = SECTION_TAG_KEY THEN <<48, 48, 48>>
                               ELSE Fill(TagByte, i - 3)).out) ])

\* the groups, as <<tags, title>>: the macros under two titles, the others
\* under one
GroupsOf ==
    { <<tags, <<TagByte>>>> : tags \in GroupTags }
    \cup { <<tags, <<BigByte>>>> :
             tags \in { x \in GroupTags : Len(x) > 3 /\ x[3] = SECTION_TAG_KEY
                                          /\ x[Len(x)] = SECTION_TAG_LINE } }

\* a content region: stray sections, then the groups gs
ContentOf(st, gs) ==
    GroupBytes(st, <<>>) \o Concat([ i \in 1 .. Len(gs) |-> GroupBytes(gs[i][1], gs[i][2]) ])

\* content regions: stray sections, then up to MaxMacros groups
MacroContents ==
    { ContentOf(st, gs) : st \in StrayTags, gs \in SeqsUpTo(GroupsOf, MaxMacros) }

MacroInputs ==
    { [ kind |-> "macro", v |-> m ] : m \in Macros }
    \cup { [ kind |-> "sections", v |-> x ] : x \in SectionVecs }
    \cup { [ kind |-> "macros", v |-> x ] : x \in MacroSlices }
    \cup { [ kind |-> "bytes", v |-> x ] : x \in MacroContents }

InitMacro ==
    /\ content_size = 0
    /\ file_type = "Unknown"
    /\ header_end_byte = 0
    /\ max_size = 0
    /\ raw_pos = 0
    /\ overflow_checks = TRUE    \* no macro function has arithmetic that can overflow
    /\ written = {}
    /\ status = "none"
    /\ disk_len = 0
    /\ disk_bytes = NoBytes
    /\ \E x \in MacroInputs : last = [NoCall EXCEPT !.data = x]

\* `last` after a macro function was given arg and returned r; num counts
\* the calls made
MacroCall(op, arg, r) ==
    /\ last' = [last EXCEPT !.op = op, !.buf = arg, !.res = r.res, !.origin = r.msg,
                            !.out = r.out, !.num = @ + 1]
    /\ UNCHANGED << content_size, file_type, header_end_byte, max_size, raw_pos,
                    disk_len, disk_bytes, status, overflow_checks, written >>

\* the macro function f is given the input of the kind
MacroInput(kind) == last.op = "none" /\ last.data.kind = kind

MacroValidate ==
    /\ MacroInput("macro")
    /\ MacroCall("Macro::validate", last.data.v, Macro_validate(last.data.v))

MacroDataValidate ==
    /\ MacroInput("macro")
    /\ MacroCall("MacroData::validate", last.data.v, MacroData_validate(last.data.v))

\* Macro::new with the title, the lines and the icon of the macro
MacroNew ==
    /\ MacroInput("macro")
    /\ macro_icon_from_key_and_id(last.data.v.icon_key, last.data.v.icon_id) # "None"
    /\ MacroCall("Macro::new", last.data.v,
                 Macro_new(last.data.v.title, last.data.v.lines,
                           macro_icon_from_key_and_id(last.data.v.icon_key,
                                                      last.data.v.icon_id)))

MacroDataNew ==
    /\ MacroInput("macro")
    /\ macro_icon_from_key_and_id(last.data.v.icon_key, last.data.v.icon_id) # "None"
    /\ MacroCall("MacroData::new", last.data.v,
                 MacroData_new(last.data.v.title, last.data.v.lines,
                               macro_icon_from_key_and_id(last.data.v.icon_key,
                                                          last.data.v.icon_id)))

MacroAsSections ==
    /\ MacroInput("macro")
    /\ MacroCall("Macro::as_sections", last.data.v, Macro_as_sections(last.data.v))

MacroDataAsSectionData ==
    /\ MacroInput("macro")
    /\ MacroCall("MacroData::as_section_data", last.data.v,
                 MacroData_as_section_data(last.data.v))

\* from_sections on given sections, and on those as_sections returned
MacroFromSections ==
    \/ /\ MacroInput("sections")
       /\ MacroCall("Macro::from_sections", last.data.v, Macro_from_sections(last.data.v))
    \/ /\ last.op = "Macro::as_sections"
       /\ last.res = "Ok"
       /\ MacroCall("Macro::from_sections", last.out, Macro_from_sections(last.out))

MacroFromSectionsUnsafe ==
    /\ MacroInput("sections")
    /\ MacroCall("Macro::from_sections_unsafe", last.data.v,
                 Macro_from_sections_unsafe(last.data.v))

MacroDataFromSectionData ==
    \/ /\ MacroInput("sections")
       /\ MacroCall("MacroData::from_section_data", last.data.v,
                    MacroData_from_section_data(last.data.v))
    \/ /\ last.op = "MacroData::as_section_data"
       /\ last.res = "Ok"
       /\ MacroCall("MacroData::from_section_data", last.out,
                    MacroData_from_section_data(last.out))

MacroDataFromSectionDataUnsafe ==
    /\ MacroInput("sections")
    /\ MacroCall("MacroData::from_section_data_unsafe", last.data.v,
                 MacroData_from_section_data_unsafe(last.data.v))

\* to_writeable_bytes on a given slice, and on the macros as_macro_vec decoded
\* (last.buf keeps the bytes they were decoded from)
ToWriteableBytes ==
    \/ /\ MacroInput("macros")
       /\ MacroCall("to_writeable_bytes", last.data.v, to_writeable_bytes(last.data.v))
    \/ /\ last.op = "as_macro_vec"
       /\ last.data.kind = "macros"
       /\ last.num = 2
       /\ last.res = "Ok"
       /\ MacroCall("to_writeable_bytes", last.buf, to_writeable_bytes(last.out))

AsWriteableBytes ==
    /\ MacroInput("macros")
    /\ MacroCall("as_writeable_bytes", last.data.v, as_writeable_bytes(last.data.v))

\* as_macro_vec on a given buffer, and on the bytes to_writeable_bytes or
\* as_writeable_bytes returned
AsMacroVec ==
    \/ /\ MacroInput("bytes")
       /\ MacroCall("as_macro_vec", last.data.v, as_macro_vec(last.data.v))
    \/ /\ last.op \in {"to_writeable_bytes", "as_writeable_bytes"}
       /\ last.num = 1
       /\ last.res = "Ok"
       /\ MacroCall("as_macro_vec", last.out, as_macro_vec(last.out))

NextMacro ==
    \/ MacroValidate
    \/ MacroDataValidate
    \/ MacroNew
    \/ MacroDataNew
    \/ MacroAsSections
    \/ MacroDataAsSectionData
    \/ MacroFromSections
    \/ MacroFromSectionsUnsafe
    \/ MacroDataFromSectionData
    \/ MacroDataFromSectionDataUnsafe
    \/ ToWriteableBytes
    \/ AsWriteableBytes
    \/ AsMacroVec

SpecMacro == InitMacro /\ [][NextMacro]_vars

----------------------------------------------------------------------------
(* Macros read from a DATFile.  The file was made as create_with_content    *)
(* makes one and holds a content region of MacroContents.                  *)

InitMacroFile ==
    /\ overflow_checks \in BOOLEAN
    /\ last = NoCall
    /\ status = "open"
    /\ \E t \in FileTypes, content \in MacroContents :
         /\ FileWith(t, content, overflow_checks).res = "Ok"
         /\ Holds(FileWith(t, content, overflow_checks).s)
         /\ written = 0 .. Len(content) - 1

\* read_macro; num counts the calls of read_macro made one after the other
\* since the file was opened (0: another call came between), up to
\* MaxMacros + 2 of them
ReadMacro ==
    /\ status = "open"
    /\ last.num <= MaxMacros + 1
    /\ Install(read_macro(Self, overflow_checks),
               AfterCall(read_macro(Self, overflow_checks)))
    /\ last' = [ Call("read_macro", "",
                      IF last.op = "none" \/ (last.op = "read_macro" /\ last.num > 0)
                      THEN last.num + 1 ELSE 0,
                      <<>>, read_macro(Self, overflow_checks))
                   EXCEPT !.out = read_macro(Self, overflow_checks).out ]
    /\ UNCHANGED written

ReadMacroUnsafe ==
    /\ status = "open"
    /\ Decoding("read_macro_unsafe", read_macro_unsafe(Self, overflow_checks))

\* `last` after a function that reads the file at the path returned r; the
\* DATFile of the caller is not touched
ReadingPath(op, r) ==
    /\ last' = [ Call(op, r.msg, 0, <<>>, [ res |-> r.res, val |-> 0, buf |-> <<>> ])
                   EXCEPT !.out = r.out ]
    /\ UNCHANGED << content_size, file_type, header_end_byte, max_size, raw_pos,
                    disk_len, disk_bytes, status, overflow_checks, written >>

ReadMacroContent ==
    /\ status = "open"
    /\ ReadingPath("read_macro_content",
                   read_macro_content(disk_len, disk_bytes, overflow_checks))

ReadMacroContentUnsafe ==
    /\ status = "open"
    /\ ReadingPath("read_macro_content_unsafe",
                   read_macro_content_unsafe(disk_len, disk_bytes, overflow_checks))

\* as_macro_vec(&read_content(path).unwrap()), as test_as_macro_vec calls it
AsMacroVecOfContent ==
    /\ status = "open"
    /\ read_content(disk_len, disk_bytes, overflow_checks).res = "Ok"
    /\ ReadingPath("as_macro_vec",
                   as_macro_vec(read_content(disk_len, disk_bytes, overflow_checks).buf))

NextMacroFile ==
    \/ ReadMacro
    \/ ReadMacroUnsafe
    \/ ReadMacroContent
    \/ ReadMacroContentUnsafe
    \/ AsMacroVecOfContent

SpecMacroFile == InitMacroFile /\ [][NextMacroFile]_vars

----------------------------------------------------------------------------
(* Properties *)

\* the DATFile and its file after the step
SelfNext == [ content_size |-> content_size', file_type |-> file_type',
              header_end_byte |-> header_end_byte', max_size |-> max_size',
              raw_pos |-> raw_pos', disk_len |-> disk_len', disk_bytes |-> disk_bytes' ]

\* the u32 stored little-endian at raw offset `at` of the file whose bytes are b
FieldOnDisk(b, at) ==
    ByteAt(b, at) + 256 * ByteAt(b, at + 1) + 65536 * ByteAt(b, at + 2)
    + 16777216 * ByteAt(b, at + 3)

\* what a caller sees of a disk byte d of a file of type t
Seen(t, d) ==
    IF t \in {"Hotbar", "UISave"} THEN Xor8(d, 49)
    ELSE IF t \in {"Unknown", "LogFilter"} THEN d
    ELSE Xor8(d, 115)

\* the step is a call of op (a call that changes nothing at all is a stutter)
Called(op) == last'.op = op /\ status = "open"

Succeeded(op) == Called(op) /\ last'.res = "Ok"

Untouched == UNCHANGED << content_size, file_type, header_end_byte, max_size,
                          raw_pos, disk_len, disk_bytes >>

\* C1: after every successful write, set_content_size or set_max_size, from
\* any cursor position a seek reaches: 0 < content_size <= max_size, the cached
\* sizes equal the header fields on disk, and the file is max_size + 32 long.
C1_HeaderInvariantPreserved ==
    ( status = "open" /\ last.res = "Ok"
      /\ last.op \in {"write", "set_content_size", "set_max_size"} )
    => /\ 0 < content_size
       /\ content_size <= max_size
       /\ FieldOnDisk(disk_bytes, 8) = content_size
       /\ FieldOnDisk(disk_bytes, 4) = max_size
       /\ disk_len = max_size + 32

\* C2: a shrink from a to b leaves content_size (cached and on disk) at b,
\* keeps the first b - 1 content bytes, which a read from logical 0 returns,
\* and leaves 0x00 in the a - b bytes from logical offset b - 1 on.
C2_ShrinkZeroesFromNewEnd ==
    [][ ( Succeeded("set_content_size") /\ 0 < last'.num /\ last'.num < content_size )
        => LET a == content_size
               b == last'.num
               rd == read([SelfNext EXCEPT !.raw_pos = 17], Fill(FillByte, a), overflow_checks)
           IN  /\ content_size' = b
               /\ FieldOnDisk(disk_bytes', 8) = b
               /\ \A i \in 0 .. b - 2 :
                      ByteAt(disk_bytes', 17 + i) = ByteAt(disk_bytes, 17 + i)
               /\ rd.res = "Ok" /\ rd.val = b - 1
               /\ \A i \in 0 .. b - 2 :
                      rd.buf[i + 1] = Seen(file_type, ByteAt(disk_bytes, 17 + i))
               /\ \A i \in b - 1 .. a - 2 : ByteAt(disk_bytes', 17 + i) = 0
      ]_vars

\* C3: a grow from a to b keeps the a - 1 content bytes and exposes b - a bytes
\* that read as NUL (on disk: NUL XOR mask), with content_size b.
C3_GrowPadsWithMaskedNul ==
    [][ ( Succeeded("set_content_size") /\ last'.num > content_size )
        => LET a == content_size
               b == last'.num
               rd == read([SelfNext EXCEPT !.raw_pos = 17], Fill(FillByte, b - 1), overflow_checks)
           IN  /\ content_size' = b
               /\ rd.res = "Ok" /\ rd.val = b - 1
               /\ \A i \in 0 .. a - 2 :
                      /\ ByteAt(disk_bytes', 17 + i) = ByteAt(disk_bytes, 17 + i)
                      /\ rd.buf[i + 1] = Seen(file_type, ByteAt(disk_bytes, 17 + i))
               /\ \A i \in a - 1 .. b - 2 :
                      /\ rd.buf[i + 1] = 0
                      /\ Seen(file_type, ByteAt(disk_bytes', 17 + i)) = 0
      ]_vars

\* a grow that exposed at least two bytes behind content that is not NUL
C3_Witness ==
    /\ status = "open" /\ last.op = "set_content_size" /\ last.res = "Ok"
    /\ last.pre_size > 1 /\ content_size > last.pre_size
    /\ file_type = "Macro"
    /\ Seen(file_type, ByteAt(disk_bytes, 17)) = DataByte

\* C4: write(buf) at logical offset c with n = len(buf) fails with InvalidInput
\* and changes nothing when c + n + 1 exceeds content_size and max_size;
\* otherwise it returns n, content_size becomes max(content_size, c + n + 1)
\* (cached and on disk), the bytes at c .. c + n - 1 become buf XOR mask, no
\* other byte of the file changes and the cursor advances by n.
C4_WriteContract ==
    [][ ( Called("write") /\ raw_pos >= 17 )
        => LET c == raw_pos - 17
               n == last'.num
               buf == last'.data
               end == c + n + 1
               new_size == IF end > content_size THEN end ELSE content_size
           IN  IF end > content_size /\ end > max_size
               THEN last'.res = "io:InvalidInput" /\ Untouched
               ELSE /\ last'.res = "Ok" /\ last'.val = n
                    /\ content_size' = new_size
                    /\ FieldOnDisk(disk_bytes', 8) = new_size
                    /\ \A i \in 0 .. n - 1 :
                           Seen(file_type, ByteAt(disk_bytes', 17 + c + i)) = buf[i + 1]
                    /\ \A o \in 0 .. disk_len - 1 :
                           ( o \notin 8 .. 11 /\ o \notin raw_pos .. raw_pos + n - 1 )
                           => ByteAt(disk_bytes', o) = ByteAt(disk_bytes, o)
                    /\ disk_len' = disk_len
                    /\ raw_pos' = raw_pos + n
                    /\ UNCHANGED << max_size, file_type, header_end_byte >>
      ]_vars

C6_ReadPastEndReturnsZero ==
    [][ ( Called("read") /\ raw_pos - 17 >= content_size - 1 )
        => /\ last'.res = "Ok" /\ last'.val = 0
           /\ last'.buf = Fill(FillByte, last'.num)
           /\ status' = "open"
           /\ Untouched
      ]_vars

\* C7: a DATFile that open returned has 0 < content_size <= max_size.
C7_OpenedFileHasContentSize ==
    ( status = "open" /\ last.op = "open" )
    => ( 0 < content_size /\ content_size <= max_size )

\* DATType::from, as the enum's discriminants list it
TypeOfCode(id) ==
    CASE id = 7012357  -> "Gearset"
      [] id = 6750218  -> "GoldSaucer"
      [] id = 262146   -> "Hotbar"
      [] id = 13238280 -> "ItemFinder"
      [] id = 6750215  -> "ItemOrder"
      [] id = 6619139  -> "Keybind"
      [] id = 196612   -> "LogFilter"
      [] id = 131073   -> "Macro"
      [] id = 6553606  -> "RecentTells"
      [] id = 65545    -> "UISave"
      [] OTHER         -> "Unknown"

C9_ResizeValidation ==
    [][ /\ Called("set_content_size")
           => LET n == last'.num
              IN  /\ n = content_size => ( last'.res = "Ok" /\ Untouched )
                  /\ n = 0 => ( last'.res = "InvalidInput" /\ Untouched )
                  /\ n > max_size => ( last'.res = "Overflow" /\ Untouched )
                  /\ last'.res = "Ok" => content_size' = n
                  /\ last'.res # "Ok" => Untouched
        /\ Called("set_max_size")
           => LET n == last'.num
              IN  /\ n = max_size => ( last'.res = "Ok" /\ Untouched )
                  /\ n = 0 => ( last'.res = "InvalidInput" /\ Untouched )
                  /\ ( n # 0 /\ n < content_size )
                     => ( last'.res = "Overflow" /\ Untouched )
                  /\ last'.res = "Ok" => max_size' = n
                  /\ last'.res # "Ok" => Untouched
      ]_vars

\* set_max_size rejected below the content size, the cursor inside the content
C9_Witness ==
    /\ status = "open" /\ last.op = "set_max_size" /\ last.res = "Overflow"
    /\ last.num = 1 /\ content_size = 3 /\ raw_pos = 18

\* C10: a successful set_content_size (grow, shrink or no-op) leaves the
\* cursor where it was.
C10_CursorRestored ==
    [][ Succeeded("set_content_size") => raw_pos' = raw_pos ]_vars

\* a grow made with the cursor inside the content
C10_Witness ==
    /\ status = "open" /\ last.op = "set_content_size" /\ last.res = "Ok"
    /\ content_size > last.pre_size
    /\ raw_pos = 18 /\ last.pre_pos = 18

\* C11: seek(Start(k)) sets the raw cursor to 17 + k and returns k;
\* seek(Current(d)) with raw + d >= 17 moves the raw cursor by d and returns
\* raw + d - 17; seek(End(k)) on a file of length max_size + 32 sets the
\* logical cursor to content_size - 1 + k, from the current content_size, and
\* returns it.
C11_SeekMapping ==
    [][ Called("seek")
        => LET k == last'.num
           IN  /\ last'.origin = "Start"
                  => ( last'.res = "Ok" /\ raw_pos' = 17 + k /\ last'.val = k )
               /\ ( last'.origin = "Current" /\ raw_pos + k >= 17 )
                  => ( last'.res = "Ok" /\ raw_pos' = raw_pos + k
                       /\ last'.val = raw_pos + k - 17 )
               /\ ( last'.origin = "End" /\ disk_len = max_size + 32 )
                  => ( last'.res = "Ok" /\ raw_pos' = 17 + content_size - 1 + k
                       /\ last'.val = content_size - 1 + k )
      ]_vars

\* C12: a seek from any origin that would resolve to a raw offset below 17
\* fails with InvalidInput and leaves the cursor where it was; after every
\* successful seek the raw cursor is >= 17 and the reported position is >= 0.
C12_NoSeekIntoHeader ==
    [][ Called("seek")
        => LET k == last'.num
               resolved ==
                   CASE last'.origin = "Start"   -> 17 + k
                     [] last'.origin = "Current" -> raw_pos + k
                     [] OTHER -> disk_len - (max_size - content_size) - 16 + k
           IN  /\ resolved < 17 => ( last'.res = "io:InvalidInput" /\ Untouched )
               /\ last'.res = "Ok" => ( raw_pos' >= 17 /\ last'.val >= 0 )
      ]_vars

\* C13: on a newly created file, after any sequence of operations, every
\* readable content byte (logical offset < content_size - 1) that the caller
\* never wrote reads back as 0x00, whatever the mask of the file's type.
C13_UntouchedReadsNul ==
    status = "open"
    => LET rd == read([Self EXCEPT !.raw_pos = 17],
                      Fill(FillByte, content_size - 1), overflow_checks)
       IN  /\ rd.res = "Ok"
           /\ \A i \in 0 .. content_size - 2 :
                  i \notin written => rd.buf[i + 1] = 0

\* C14: create_unsafe(path, t, cs, ms, eb) succeeds exactly when
\* 1 <= cs <= ms and otherwise returns an error; on success the DATFile
\* reports content_size cs, max_size ms, file_type t and header_end_byte eb,
\* the file is ms + 32 bytes long with type code, ms, cs and eb at offsets
\* 0x00, 0x04, 0x08 and 0x10, and reading the content yields cs - 1 NUL bytes.
C14_CreateUnsafe ==
    last.op = "create_unsafe"
    => LET t == last.origin
           cs == last.num
           ms == last.data[1]
           eb == last.data[2]
           rd == read(Self, Fill(FillByte, cs - 1), overflow_checks)
       IN  IF 1 <= cs /\ cs <= ms
           THEN /\ last.res = "Ok" /\ status = "open"
                /\ content_size = cs /\ max_size = ms
                /\ file_type = t /\ header_end_byte = eb
                /\ disk_len = ms + 32
                /\ TypeOfCode(FieldOnDisk(disk_bytes, 0)) = t
                /\ t = "Unknown" => FieldOnDisk(disk_bytes, 0) = 0
                /\ FieldOnDisk(disk_bytes, 4) = ms
                /\ FieldOnDisk(disk_bytes, 8) = cs
                /\ ByteAt(disk_bytes, 16) = eb
                /\ rd.res = "Ok" /\ rd.val = cs - 1
                /\ rd.buf = Fill(0, cs - 1)
           ELSE /\ last.res \notin {"Ok", "panic"}
                /\ status = "failed"

\* C15: write_content(path, buf) on an existing DAT file succeeds when
\* len(buf) + 1 <= max_size, whatever the previous content size, and then
\* content_size is len(buf) + 1 and read_content(path) returns exactly buf;
\* when len(buf) + 1 > max_size it returns Overflow and the file is unchanged.
C15_WriteContentReplaces ==
    [][ ( last'.op = "write_content" /\ status \in {"open", "closed"} )
        => LET buf == last'.data
               rc == read_content(disk_len', disk_bytes', overflow_checks)
           IN  IF Len(buf) + 1 <= FieldOnDisk(disk_bytes, 4)
               THEN /\ last'.res = "Ok" /\ last'.val = Len(buf)
                    /\ FieldOnDisk(disk_bytes', 8) = Len(buf) + 1
                    /\ open(disk_len', disk_bytes').s.content_size = Len(buf) + 1
                    /\ rc.res = "Ok" /\ rc.buf = buf
               ELSE /\ last'.res = "Overflow"
                    /\ UNCHANGED << disk_len, disk_bytes >>
      ]_vars

\* a masked file whose content was longer before the call
C15_Witness ==
    /\ status = "closed" /\ last.op = "write_content" /\ last.res = "Ok"
    /\ last.data = <<DataByte>> /\ last.pre_size = 3
    /\ TypeOfCode(FieldOnDisk(disk_bytes, 0)) = "Macro"

\* C16: create_with_content(path, t, content) returns DATError::Overflow when
\* len(content) + 1 exceeds the default max size of the type.
C16_CreateWithContentOverflow ==
    ( last.op = "create_with_content"
      /\ Len(last.data) + 1 > unwrap_or_0(get_default_max_size_for_type(last.origin)) )
    => last.res = "Overflow"

\* C17: Section::new and SectionData::new return InvalidInput exactly when
\* the tag is not 1 byte long, otherwise Overflow exactly when the content is
\* longer than 65534 bytes, otherwise a section with the given tag and
\* content and content_size = byte length of the content + 1; the section a
\* constructor built encodes to content_size + 3 bytes: tag, content_size
\* little-endian, content, 0x00.
C17_SectionNew ==
    /\ last.op \in {"Section::new", "SectionData::new"}
       => IF Len(last.buf) # 1 THEN last.res = "InvalidInput"
          ELSE IF Len(last.data) > 65534 THEN last.res = "Overflow"
          ELSE /\ last.res = "Ok"
               /\ last.out.tag = last.buf
               /\ last.out.content = last.data
               /\ last.out.content_size = Len(last.data) + 1
    /\ last.op \in {"Vec::from(Section)", "Vec::from(SectionData)"}
       => /\ last.out.content_size = Len(last.out.content) + 1
          /\ Len(last.buf) = last.out.content_size + 3
          /\ SubSeq(last.buf, 1, 1) = last.out.tag
          /\ last.buf[2] \in 0 .. 255 /\ last.buf[3] \in 0 .. 255
          /\ last.buf[2] + 256 * last.buf[3] = last.out.content_size
          /\ SubSeq(last.buf, 4, Len(last.buf) - 1) = last.out.content
          /\ last.buf[Len(last.buf)] = 0

\* a two-byte content was built into a section of content_size 3 and encoded
C17_Witness ==
    /\ last.op = "Vec::from(Section)"
    /\ last.out.content = <<LeadByte, 128>>
    /\ last.out.content_size = 3
    /\ Len(last.buf) = 6

\* the single-record decoders
SingleDecoders == {"Section::try_from", "SectionData::try_from", "as_section"}

\* the content_size a record's header declares
Declared(b) == b[2] + 256 * b[3]

\* C18: decoding a single record from a buffer whose bytes after the 3-byte
\* header do not match the declared content_size fails with Overflow when
\* the buffer is longer than declared and with Underflow when it is shorter.
\* (Buffers with a tag that is not UTF-8 are left out: the tag is read first.)
C18_SingleRecordSizeMismatch ==
    ( /\ last.op \in SingleDecoders
      /\ Len(last.data) >= 3
      /\ from_utf8(SubSeq(last.data, 1, 1)) )
    => /\ Len(last.data) - 3 > Declared(last.data) => last.res = "Overflow"
       /\ Len(last.data) - 3 < Declared(last.data) => last.res = "Underflow"

\* C19: single-record decoding validates the NUL it strips: a buffer of the
\* declared length whose final byte is not 0x00 is rejected with an error.
C19_SingleRecordValidatesNul ==
    ( /\ last.op \in SingleDecoders
      /\ Len(last.data) >= 4
      /\ Len(last.data) - 3 = Declared(last.data)
      /\ last.data[Len(last.data)] # 0 )
    => last.res \notin {"Ok", "panic"}

\* the buffer is a sequence of whole records: each holds its header and the
\* content_size >= 1 bytes its header declares
RECURSIVE WholeRecords(_)
WholeRecords(b) ==
    \/ Len(b) = 0
    \/ /\ Len(b) >= 3
       /\ Declared(b) >= 1
       /\ 3 + Declared(b) <= Len(b)
       /\ WholeRecords(SubSeq(b, 3 + Declared(b) + 1, Len(b)))

\* the records of such a buffer, in buffer order
RECURSIVE CutRecords(_)
CutRecords(b) ==
    IF Len(b) = 0 THEN <<>>
    ELSE << SubSeq(b, 1, 3 + Declared(b)) >>
         \o CutRecords(SubSeq(b, 3 + Declared(b) + 1, Len(b)))

\* the payload of a record: what lies between its header and its declared end
PayloadOf(r) == SubSeq(r, 4, Len(r) - 1)

\* the errors the defects of a record call for
Defects(r) ==
    ( IF \E i \in 1 .. Len(PayloadOf(r)) : PayloadOf(r)[i] = 0
      THEN {"Underflow"} ELSE {} )
    \cup ( IF r[Len(r)] # 0 THEN {"Overflow"} ELSE {} )
    \cup ( IF ~from_utf8(SubSeq(r, 1, 1)) \/ ~from_utf8(PayloadOf(r))
           THEN {"BadEncoding"} ELSE {} )

\* C20: as_section_vec on a concatenation of well-formed records returns
\* them in buffer order, the cursor reaching the buffer length exactly; an
\* embedded 0x00 in a payload is Underflow, a byte other than 0x00 at the
\* declared end is Overflow, a tag or payload that is not UTF-8 is
\* BadEncoding; the first malformed record in buffer order determines the
\* error (one its defects call for) and no partial list is returned.
C20_AsSectionVec ==
    ( last.op = "as_section_vec" /\ WholeRecords(last.data) )
    => LET recs == CutRecords(last.data)
           bad == { i \in 1 .. Len(recs) : Defects(recs[i]) # {} }
       IN  IF bad = {}
           THEN /\ last.res = "Ok"
                /\ last.val = Len(last.data)
                /\ Len(last.out) = Len(recs)
                /\ \A i \in 1 .. Len(recs) :
                     last.out[i] = [ tag |-> SubSeq(recs[i], 1, 1),
                                     content_size |-> Declared(recs[i]),
                                     content |-> PayloadOf(recs[i]) ]
           ELSE /\ last.res \in Defects(recs[CHOOSE i \in bad : \A j \in bad : i <= j])
                /\ last.out = <<>>

\* two well-formed records were decoded, the second after a first with a
\* two-byte character
C20_Witness ==
    /\ last.op = "as_section_vec"
    /\ last.res = "Ok"
    /\ Len(last.out) = 2
    /\ last.out[1].content = <<LeadByte, 128>>
    /\ last.out[2].content = <<TagByte>>
    /\ last.val = Len(last.data)

\* the buffer is a sequence of whole records followed by trailing partial
\* data: fewer than 3 header bytes, or fewer bytes than the last header
\* declares
RECURSIVE EndsPartial(_)
EndsPartial(b) ==
    /\ Len(b) > 0
    /\ \/ Len(b) < 3
       \/ 3 + Declared(b) > Len(b)
       \/ /\ Declared(b) >= 1
          /\ EndsPartial(SubSeq(b, 3 + Declared(b) + 1, Len(b)))

\* C21: as_section_vec treats trailing partial data as a malformed buffer:
\* for a buffer that ends with fewer than 3 header bytes, or with fewer
\* payload bytes than the last header declares, it returns an error value
\* rather than aborting or returning the records decoded so far.
C21_TrailingPartialIsError ==
    ( last.op = "as_section_vec" /\ EndsPartial(last.data) )
    => last.res \notin {"Ok", "panic"}

\* the content a caller sees: the bytes of the content region, unmasked,
\* without the terminating NUL
ContentSeen == ApplyMask(file_type, BytesAt(disk_bytes, HEADER_SIZE, content_size - 1))

\* the bytes of it that lie at and after the cursor
LeftToRead == SubSeq(ContentSeen, Min(raw_pos - HEADER_SIZE, Len(ContentSeen)) + 1,
                     Len(ContentSeen))

\* the bytes between the cursor and the content end; negative past the end
Remaining == (content_size - 1) - (raw_pos - HEADER_SIZE)

\* C22: read_section returns IncorrectType without moving the cursor when
\* the file type is not section-based; EndOfFile when fewer bytes than a
\* full record (3 header bytes and content_size - 1 payload bytes) remain
\* before the content end; on success the record read, leaving the cursor
\* just past the record's trailing NUL.  (A header whose tag is not UTF-8 or
\* that declares 0 is left out of the EndOfFile case.)
C22_ReadSection ==
    [][ ( last'.op = "read_section" /\ status = "open" )
        => /\ file_type \notin SECTION_BASED_TYPES
              => last'.res = "IncorrectType" /\ raw_pos' = raw_pos
           /\ ( /\ file_type \in SECTION_BASED_TYPES
                /\ \/ Remaining < 3
                   \/ /\ from_utf8(SubSeq(LeftToRead, 1, 1))
                      /\ Declared(LeftToRead) >= 1
                      /\ Remaining < 3 + Declared(LeftToRead) - 1 )
              => last'.res = "EndOfFile"
           /\ last'.res = "Ok"
              => /\ Remaining >= 3 + Declared(LeftToRead) - 1
                 /\ last'.out = [ tag |-> SubSeq(LeftToRead, 1, 1),
                                  content_size |-> Declared(LeftToRead),
                                  content |-> SubSeq(LeftToRead, 4,
                                                     3 + Declared(LeftToRead) - 1) ]
                 /\ raw_pos' = raw_pos + 3 + Declared(LeftToRead)
      ]_vars
----------------------------------------------------------------------------
(* Macros *)

\* the checks of from_sections on the sections x, in the order of the claim:
\* <<the check fails, the kind of the Err, its message>>.  The checks after
\* the first are made of at least 4 sections; lengths are counted as the
\* code counts them (the sections given have one-byte characters only).
ChecksInOrder(x) ==
    << << Len(x) < 4, "InvalidInput", "Macros require a minimum of 4 sections." >>,
       << Len(x) >= 4 /\ x[1].tag # <<84>>, "InvalidInput",
          "First section was not a Title (T) section." >>,
       << Len(x) >= 4 /\ x[2].tag # <<73>>, "InvalidInput",
          "Second section was not a Icon (I) section." >>,
       << Len(x) >= 4 /\ x[3].tag # <<75>>, "InvalidInput",
          "Third section was not a Key (K) section." >>,
       << Len(x) >= 4 /\ \E i \in 4 .. Len(x) : x[i].tag # <<76>>, "InvalidInput",
          "Non-line (L) section in lines block." >>,
       << Len(x) >= 4 /\ Len(x[1].content) > 20, "Overflow",
          "Title is longer than 20 characters." >>,
       << Len(x) >= 4 /\ \A a \in FromKeyAndIdArms :
                             ~(a[1] = x[3].content /\ a[2] = x[2].content),
          "InvalidInput", "Macro icon is invalid." >>,
       << Len(x) - 3 < 15, "Underflow", "Macro has fewer than 15 lines." >>,
       << Len(x) - 3 > 15, "Overflow", "Macro has more than 15 lines." >>,
       << Len(x) >= 4 /\ \E i \in 4 .. Len(x) : Len(x[i].content) > 180, "Overflow",
          "Line is longer than 180 characters." >> >>

\* the checks among the first n that fail
Failing(x, n) == { i \in 1 .. n : ChecksInOrder(x)[i][1] }

First(S) == CHOOSE i \in S : \A j \in S : i <= j

\* the macro that the sections x are
MacroOf(x) ==
    [ title |-> x[1].content, icon_id |-> x[2].content, icon_key |-> x[3].content,
      lines |-> [ i \in 1 .. Len(x) - 3 |-> x[i + 3].content ] ]

\* the call made n of the checks on last.buf: it returned the first that
\* fails, or the macro if none does
ReturnedFirstOf(n) ==
    IF Failing(last.buf, n) = {}
    THEN last.res = "Ok" /\ last.out = MacroOf(last.buf)
    ELSE /\ last.res = ChecksInOrder(last.buf)[First(Failing(last.buf, n))][2]
         /\ last.origin = ChecksInOrder(last.buf)[First(Failing(last.buf, n))][3]

\* C23: Macro::from_sections and MacroData::from_section_data return the
\* first failing check in the fixed order (fewer than 4 records, record 0 not
\* T, record 1 not I, record 2 not K, a later record not L, title longer than
\* 20, icon pair not registered, fewer than 15 lines, more than 15 lines, a
\* line longer than 180) and Ok exactly when none fails; the unsafe variants
\* make the first five checks only and accept any number of lines >= 1.
C23_FromSectionsChecksInOrder ==
    /\ last.op \in {"Macro::from_sections", "MacroData::from_section_data"}
         => ReturnedFirstOf(10)
    /\ last.op \in {"Macro::from_sections_unsafe", "MacroData::from_section_data_unsafe"}
         => ReturnedFirstOf(5)

\* from_sections was given sections whose title is too long and whose third
\* tag is wrong, and reported the tag
C23_Witness ==
    /\ last.op = "Macro::from_sections"
    /\ last.data.kind = "sections"
    /\ last.origin = "Third section was not a Key (K) section."
    /\ Len(last.buf[1].content) > 20

\* the number of characters of a string: the bytes that continue none
CharCount(b) == Cardinality({ i \in 1 .. Len(b) : ~IsCont(b[i]) })

\* the macro that validate was given, or that Macro::new built and validated
Validated ==
    IF last.op \in {"Macro::new", "MacroData::new"}
    THEN [ last.buf EXCEPT !.lines = @ \o [ i \in 1 .. 15 - Len(@) |-> <<>> ] ]
    ELSE last.buf

\* C24: the limits are limits of characters: validate (and Macro::new)
\* rejects a title with Overflow exactly when it has more than 20 characters
\* and, the title, the icon and the line count being valid, a line exactly
\* when it has more than 180 characters; titles and lines of multi-byte
\* characters within the limits are accepted.
C24_LimitsAreInCharacters ==
    last.op \in {"Macro::validate", "MacroData::validate", "Macro::new", "MacroData::new"}
    => /\ (last.res = "Overflow" /\ last.origin = "Title is longer than 20 characters.")
            <=> CharCount(Validated.title) > 20
       /\ ( /\ CharCount(Validated.title) <= 20
            /\ macro_icon_from_key_and_id(Validated.icon_key, Validated.icon_id) # "None"
            /\ Len(Validated.lines) = 15 )
          => IF \E i \in 1 .. 15 : CharCount(Validated.lines[i]) > 180
             THEN /\ last.res = "Overflow"
                  /\ last.origin = "Line is longer than 180 characters."
             ELSE last.res \in {"None", "Ok"}

\* C25: for every macro m that validate accepts, as_sections(m) is 18
\* sections tagged T, I, K and 15 times L that hold the title, the icon id,
\* the icon key and the lines in order, and from_sections of them is Ok(m).
C25_RecordRoundTrip ==
    /\ ( /\ last.op \in {"Macro::as_sections", "MacroData::as_section_data"}
         /\ Macro_validate(last.data.v).res = "None" )
       => /\ last.res = "Ok"
          /\ Len(last.out) = 18
          /\ last.out[1].tag = <<84>> /\ last.out[1].content = last.data.v.title
          /\ last.out[2].tag = <<73>> /\ last.out[2].content = last.data.v.icon_id
          /\ last.out[3].tag = <<75>> /\ last.out[3].content = last.data.v.icon_key
          /\ \A i \in 1 .. 15 : /\ last.out[i + 3].tag = <<76>>
                                /\ last.out[i + 3].content = last.data.v.lines[i]
    /\ ( /\ last.op \in {"Macro::from_sections", "MacroData::from_section_data"}
         /\ last.data.kind = "macro"
         /\ Macro_validate(last.data.v).res = "None" )
       => last.res = "Ok" /\ last.out = last.data.v

\* from_sections returned a macro with a title of 20 bytes, an icon and lines
\* that differ from the sections as_sections made of it
C25_Witness ==
    /\ last.op = "Macro::from_sections"
    /\ last.data.kind = "macro"
    /\ last.res = "Ok"
    /\ Len(last.out.title) = 20
    /\ last.out.icon_key # <<48, 48, 48>>
    /\ last.out.lines[1] # last.out.lines[2]

\* the macro that pads a slice: no title, 15 empty lines, ("000", "0000000")
BlankMacro ==
    [ title |-> <<>>, lines |-> [ i \in 1 .. 15 |-> <<>> ],
      icon_key |-> <<48, 48, 48>>, icon_id |-> <<48, 48, 48, 48, 48, 48, 48>> ]

\* the slice x padded to 100 macros
PaddedTo100(x) == x \o [ i \in 1 .. 100 - Len(x) |-> BlankMacro ]

\* the macros of x that validate rejects
Rejected(x) == { i \in 1 .. Len(x) : Macro_validate(x[i]).res # "None" }

\* to_writeable_bytes or as_writeable_bytes was given the slice last.buf
Serialised ==
    last.op \in {"to_writeable_bytes", "as_writeable_bytes"} /\ last.num = 1

\* as_macro_vec was given the bytes that to_writeable_bytes returned
DecodedAgain == last.op = "as_macro_vec" /\ last.num = 2

\* C26: to_writeable_bytes / as_writeable_bytes returns Overflow for more
\* than 100 macros, whatever they are; else the first validation error and no
\* bytes; else the encodings of the macros, padded to 100 with blank macros,
\* one after the other, which as_macro_vec decodes to these 100 macros.
C26_WriteableBytes ==
    /\ Serialised =>
         IF Len(last.buf) > 100
         THEN last.res = "Overflow" /\ last.out = <<>>
         ELSE IF Rejected(last.buf) # {}
         THEN /\ last.res = Macro_validate(last.buf[First(Rejected(last.buf))]).res
              /\ last.origin = Macro_validate(last.buf[First(Rejected(last.buf))]).msg
              /\ last.out = <<>>
         ELSE /\ last.res = "Ok"
              /\ last.out = Concat([ i \in 1 .. 100 |->
                                       Macro_as_bytes(PaddedTo100(last.buf)[i]).out ])
    /\ DecodedAgain =>
         /\ last.res = "Ok"
         /\ Len(last.out) = 100
         /\ last.out = PaddedTo100(last.data.v)

\* to_writeable_bytes was given the macros that as_macro_vec decoded from
\* the bytes last.buf
SerialisedAgain == last.op = "to_writeable_bytes" /\ last.num = 3

\* C27: the bytes that to_writeable_bytes returns for a slice of macros that
\* validate accepts are accepted on read: as_section_vec and as_macro_vec
\* return Ok on them, the macros decoded are the padded slice, and
\* to_writeable_bytes of the macros decoded returns the same bytes.
C27_ByteRoundTrip ==
    /\ (Serialised /\ Len(last.buf) <= 100 /\ Rejected(last.buf) = {})
         => last.res = "Ok" /\ as_section_vec(last.out).res = "Ok"
    /\ DecodedAgain => last.res = "Ok" /\ last.out = PaddedTo100(last.data.v)
    /\ SerialisedAgain => last.res = "Ok" /\ last.out = last.buf


\* the groups that are macros: Title, Icon, Key, then Line sections only
WellFormed(g) ==
    /\ Len(g[1]) >= 4
    /\ g[1][1] = SECTION_TAG_TITLE /\ g[1][2] = SECTION_TAG_ICON /\ g[1][3] = SECTION_TAG_KEY
    /\ \A i \in 4 .. Len(g[1]) : g[1][i] = SECTION_TAG_LINE

\* the macro the sections of GroupBytes(g[1], g[2]) hold
MacroOfGroup(g) ==
    [ icon_key |-> <<48, 48, 48>>, icon_id |-> <<48, 48, 48, 48, 48, 48, 48>>,
      lines |-> [ i \in 1 .. Len(g[1]) - 3 |-> Fill(TagByte, i) ], title |-> g[2] ]

\* the sequences of n macros a content region can hold, as groups
MacroFiles(n) == { gs \in [ 1 .. n -> GroupsOf ] : \A i \in 1 .. n : WellFormed(gs[i]) }

\* the file is a macro file that holds the macros of the groups gs
HoldsMacros(gs) == file_type = "Macro" /\ ContentSeen = ContentOf(<<>>, gs)

\* C28: on a macro file that holds N >= 2 macros, N calls of read_macro made
\* one after the other from the start return the macros in file order, each
\* leaving the cursor at the first byte of the next macro's Title record, and
\* the call after the last one returns EndOfFile.
C28_ReadMacroInFileOrder ==
    \A n \in 2 .. MaxMacros : \A gs \in MacroFiles(n) :
        ( HoldsMacros(gs) /\ last.op = "read_macro" /\ last.num \in 1 .. n + 1 )
        => IF last.num <= n
           THEN /\ last.res = "Ok"
                /\ last.out = MacroOfGroup(gs[last.num])
                /\ raw_pos = HEADER_SIZE + Len(ContentOf(<<>>, SubSeq(gs, 1, last.num)))
           ELSE last.res = "EndOfFile"

\* the content regions of MacroContents with what they were made of:
\* <<the bytes, the tags of the stray sections, the groups>>
ContentTable ==
    { << ContentOf(st, gs), st, gs >> :
        st \in StrayTags, gs \in SeqsUpTo(GroupsOf, MaxMacros) }

\* the last call grouped the sections of the content region of the file
GroupedContent ==
    \/ last.op = "as_macro_vec"
    \/ last.op = "read_macro_content" /\ file_type = "Macro"
    \/ last.op = "read_macro_content_unsafe" /\ file_type \in SECTION_BASED_TYPES

\* C29: as_macro_vec and read_macro_content start a group at each Title record
\* and flush the last group: a content region of N well-formed macros gives
\* these N macros in file order (none for an empty region); when a group is
\* malformed, or sections precede the first Title, the call fails with
\* InvalidInput and returns no macros.
C29_OneMacroPerTitle ==
    GroupedContent
    => \A seen \in {ContentSeen} : \A e \in ContentTable :
           e[1] = seen
           => IF e[2] = <<>> /\ \A i \in 1 .. Len(e[3]) : WellFormed(e[3][i])
              THEN /\ last.res = "Ok"
                   /\ last.out = [ i \in 1 .. Len(e[3]) |-> MacroOfGroup(e[3][i]) ]
              ELSE last.res = "InvalidInput" /\ last.out = <<>>

\* as_macro_vec returned two macros with different titles, the second of two
\* lines, from a region whose last group no Title follows
C29_Witness ==
    /\ last.op = "as_macro_vec"
    /\ last.res = "Ok"
    /\ Len(last.out) = 2
    /\ last.out[1].title # last.out[2].title
    /\ Len(last.out[2].lines) = 2

\* the byte of the trailing terminator (logical offset content_size - 1, with
\* the content size the header holds) and every byte after it up to the end
\* of the file are 0x00 on disk
NulTerminated(len, bytes) ==
    \A i \in HEADER_SIZE + FieldOnDisk(bytes, INDEX_CONTENT_SIZE) - 1 .. len - 1 :
        ByteAt(bytes, i) = 0

\* C30: the content region is always NUL-terminated on disk: the file
\* create_unsafe returns has 0x00 at logical offset content_size - 1 and in
\* every byte after it, and a successful write, set_content_size, set_max_size
\* or write_content keeps it so.
C30_ContentNulTerminated ==
    [][ /\ Succeeded("create_unsafe") => NulTerminated(disk_len', disk_bytes')
        /\ ( /\ NulTerminated(disk_len, disk_bytes)
             /\ \/ Succeeded("write")
                \/ Succeeded("set_content_size")
                \/ Succeeded("set_max_size")
                \/ last'.op = "write_content" /\ last'.res = "Ok" )
           => NulTerminated(disk_len', disk_bytes')
      ]_vars
====
